---- MODULE Spec2Model ----
(***************************************************************************)
(* ChatWave: the understanding-and-decision pipeline.                      *)
(*                                                                         *)
(*   text -> extractEntities (merge with the session's entities)           *)
(*        -> detectIntent                                                  *)
(*        -> ChatService.processMessage (per-session ConversationContext)  *)
(*        -> RoutePlanner.planRoutes over TransportService.searchRoutes    *)
(*                                                                         *)
(* A message is its text, a string.  The regular expressions of the        *)
(* engine are transcribed as small pattern terms and run by a matcher      *)
(* over the characters of the text, so intents and entities are computed   *)
(* from the text as the code computes them.                                *)
(***************************************************************************)
EXTENDS Integers, Sequences, FiniteSets, TLC

(***************************************************************************)
(* Characters and strings                                                  *)
(***************************************************************************)
LowerCase == "abcdefghijklmnopqrstuvwxyz"
UpperCase == "ABCDEFGHIJKLMNOPQRSTUVWXYZ"
DigitChars == "0123456789"

\* The character at position i (1-based) of s, as a one-character string.
CharAt(s, i) == SubSeq(s, i, i)

CharsOf(s) == {CharAt(s, i) : i \in 1..Len(s)}

Letters == CharsOf(LowerCase) \cup CharsOf(UpperCase)
Digits == CharsOf(DigitChars)
\* \w, \s and [a-z\s] (under the i flag) of the JavaScript patterns
WordChars == Letters \cup Digits \cup {"_"}
SpaceChars == {" "}
LetterOrSpace == Letters \cup SpaceChars

\* String.prototype.toLowerCase, letter by letter
LowerOfChar(c) ==
    IF \E i \in 1..Len(UpperCase) : CharAt(UpperCase, i) = c
    THEN CharAt(LowerCase, CHOOSE i \in 1..Len(UpperCase) : CharAt(UpperCase, i) = c)
    ELSE c

RECURSIVE toLowerCase(_)
toLowerCase(s) ==
    IF s = "" THEN "" ELSE LowerOfChar(CharAt(s, 1)) \o toLowerCase(SubSeq(s, 2, Len(s)))

\* String.prototype.trim
RECURSIVE trim(_)
trim(s) ==
    IF s = "" THEN ""
    ELSE IF CharAt(s, 1) \in SpaceChars THEN trim(SubSeq(s, 2, Len(s)))
    ELSE IF CharAt(s, Len(s)) \in SpaceChars THEN trim(SubSeq(s, 1, Len(s) - 1))
    ELSE s

\* String.prototype.includes
includes(s, sub) ==
    \E i \in 0..(Len(s) - Len(sub)) : SubSeq(s, i + 1, i + Len(sub)) = sub

\* String.prototype.startsWith
startsWith(s, prefix) == Len(prefix) <= Len(s) /\ SubSeq(s, 1, Len(prefix)) = prefix

Min(S) == CHOOSE x \in S : \A y \in S : x <= y
Max(S) == CHOOSE x \in S : \A y \in S : x >= y

(***************************************************************************)
(* Pattern terms and the matcher.  A position is the number of characters  *)
(* already consumed, 0..Len(s).  Ends(re, s, i) is the set of positions at *)
(* which a match of re that starts at position i can end.                  *)
(***************************************************************************)
Lit(str) == [k |-> "lit", str |-> str]
Cls(chars) == [k |-> "cls", chars |-> chars]
Alt(res) == [k |-> "alt", res |-> res]
Cat(res) == [k |-> "cat", res |-> res]
Opt(re) == [k |-> "opt", re |-> re]
Star(re) == [k |-> "star", re |-> re]
Plus(re) == [k |-> "cat", res |-> <<re, [k |-> "star", re |-> re]>>]
WB == [k |-> "wb"]
BOL == [k |-> "bol"]
EOL == [k |-> "eol"]
\* an alternation of literal words: (w1|w2|...)
Words(ws) == [k |-> "alt", res |-> [i \in 1..Len(ws) |-> Lit(ws[i])]]
\* \s* , \s+ , \d , \w+
S0 == Star(Cls(SpaceChars))
S1 == Plus(Cls(SpaceChars))
D1 == Cls(Digits)
W1 == Plus(Cls(WordChars))

IsWordAt(s, i) == i >= 1 /\ i <= Len(s) /\ CharAt(s, i) \in WordChars

RECURSIVE Ends(_, _, _)
RECURSIVE EndsCat(_, _, _, _)
RECURSIVE EndsStar(_, _, _, _)

Ends(re, s, i) ==
    CASE re.k = "lit" ->
           IF i + Len(re.str) <= Len(s) /\ SubSeq(s, i + 1, i + Len(re.str)) = re.str
           THEN {i + Len(re.str)} ELSE {}
      [] re.k = "cls" ->
           IF i < Len(s) /\ CharAt(s, i + 1) \in re.chars THEN {i + 1} ELSE {}
      [] re.k = "alt" -> UNION {Ends(re.res[n], s, i) : n \in 1..Len(re.res)}
      [] re.k = "cat" -> EndsCat(re.res, 1, s, {i})
      [] re.k = "opt" -> {i} \cup Ends(re.re, s, i)
      [] re.k = "star" -> EndsStar(re.re, s, {i}, {i})
      [] re.k = "wb" -> IF IsWordAt(s, i) # IsWordAt(s, i + 1) THEN {i} ELSE {}
      [] re.k = "bol" -> IF i = 0 THEN {i} ELSE {}
      [] re.k = "eol" -> IF i = Len(s) THEN {i} ELSE {}

EndsCat(res, n, s, from) ==
    IF n > Len(res) \/ from = {} THEN from
    ELSE EndsCat(res, n + 1, s, UNION {Ends(res[n], s, i) : i \in from})

EndsStar(re, s, frontier, seen) ==
    LET next == UNION {Ends(re, s, i) : i \in frontier} \ seen
    IN  IF next = {} THEN seen ELSE EndsStar(re, s, next, seen \cup next)

\* RegExp.prototype.test: the pattern matches somewhere in s
Test(re, s) == \E i \in 0..Len(s) : Ends(re, s, i) # {}

\* . of the JavaScript patterns: any character a message is written with
AnyChars == WordChars \cup SpaceChars \cup {"'", "#", "!", "?", ",", ".", "/", "-", ":"}

(***************************************************************************)
(* Intent definitions and pattern database                                 *)
(***************************************************************************)
INTENTS ==
    [TRAVEL_SEARCH |-> "travel_search", GREETING |-> "greeting", HELP |-> "help",
     ROUTE_PREFERENCE |-> "route_preference", SCHEDULE_QUERY |-> "schedule_query",
     PRICE_QUERY |-> "price_query", COMPARE_ROUTES |-> "compare_routes",
     SELECT_ROUTE |-> "select_route", GOODBYE |-> "goodbye", THANKS |-> "thanks",
     UNKNOWN |-> "unknown"]

IntentNames == {INTENTS[f] : f \in DOMAIN INTENTS}

\* The entries of INTENT_PATTERNS in declaration order (the order Object.entries
\* enumerates them in), each with its list of patterns.
INTENT_PATTERNS == <<
    [intent |-> INTENTS.GREETING, patterns |-> <<
        Cat(<<BOL, Alt(<<Lit("hi"), Lit("hello"), Lit("hey"), Lit("howdy"), Lit("hola"),
                         Cat(<<Lit("good"), S0,
                               Words(<<"morning", "afternoon", "evening", "day">>)>>),
                         Lit("namaste"), Lit("namaskar")>>)>>),
        Cat(<<BOL, Alt(<<Cat(<<Lit("what"), Opt(Lit("'")), Opt(Lit("s")), S0, Lit("up")>>),
                         Lit("yo"), Lit("sup")>>)>>) >>],
    [intent |-> INTENTS.GOODBYE, patterns |-> <<
        Cat(<<WB, Alt(<<Lit("bye"), Lit("goodbye"), Cat(<<Lit("see"), S0, Lit("you")>>),
                        Cat(<<Lit("take"), S0, Lit("care")>>), Lit("ciao"), Lit("later"),
                        Lit("ttyl")>>), WB>>) >>],
    [intent |-> INTENTS.THANKS, patterns |-> <<
        Cat(<<WB, Alt(<<Cat(<<Lit("thank"), Opt(Lit("s"))>>),
                        Cat(<<Lit("thank"), S0, Lit("you")>>), Lit("thx"), Lit("ty"),
                        Lit("appreciate"), Lit("grateful"), Lit("dhanyavaad")>>), WB>>) >>],
    [intent |-> INTENTS.HELP, patterns |-> <<
        Cat(<<WB, Alt(<<Lit("help"), Lit("assist"), Lit("support"),
                        Cat(<<Lit("how"), S0, Words(<<"do", "can", "to">>)>>),
                        Cat(<<Lit("what"), S0, Lit("can"), S0, Lit("you")>>),
                        Lit("guide"), Lit("tutorial")>>), WB>>),
        Cat(<<WB, Lit("what"), S0, Words(<<"do", "can">>), S0, Lit("you"), S0, Lit("do"),
              WB>>) >>],
    [intent |-> INTENTS.PRICE_QUERY, patterns |-> <<
        Cat(<<WB, Alt(<<Cat(<<Lit("how"), S0, Lit("much")>>), Lit("price"), Lit("cost"),
                        Lit("fare"), Lit("charge"), Lit("rate"),
                        Cat(<<Lit("ticket"), S0, Lit("price")>>), Lit("expensive"),
                        Lit("cheap"), Lit("budget")>>), WB>>) >>],
    [intent |-> INTENTS.SCHEDULE_QUERY, patterns |-> <<
        Cat(<<WB, Alt(<<Lit("when"), Cat(<<Lit("what"), S0, Lit("time")>>), Lit("schedule"),
                        Lit("timing"), Lit("departure"), Lit("arrival"),
                        Cat(<<Lit("next"), S0, Words(<<"train", "bus">>)>>),
                        Lit("timetable")>>), WB>>) >>],
    [intent |-> INTENTS.COMPARE_ROUTES, patterns |-> <<
        Cat(<<WB, Alt(<<Lit("compare"), Lit("comparison"), Lit("difference"), Lit("vs"),
                        Lit("versus"),
                        Cat(<<Lit("which"), S0, Lit("is"), S0,
                              Words(<<"better", "faster", "cheaper">>)>>),
                        Lit("between")>>), WB>>) >>],
    [intent |-> INTENTS.SELECT_ROUTE, patterns |-> <<
        Cat(<<WB, Alt(<<Lit("select"), Lit("choose"), Lit("book"), Lit("pick"),
                        Cat(<<Lit("go"), S0, Lit("with")>>),
                        Cat(<<Lit("option"), S0, D1>>),
                        Cat(<<Lit("i"), Alt(<<Lit("'ll"), Cat(<<S0, Lit("will")>>)>>), S0,
                              Alt(<<Lit("take"), Lit("choose"),
                                    Cat(<<Lit("go"), S0, Lit("with")>>)>>)>>)>>), WB>>),
        Cat(<<WB, Alt(<<Lit("number"), Lit("#")>>), S0, D1, WB>>) >>],
    [intent |-> INTENTS.ROUTE_PREFERENCE, patterns |-> <<
        Cat(<<WB, Alt(<<Lit("prefer"), Lit("want"), Cat(<<Lit("looking"), S0, Lit("for")>>),
                        Cat(<<Lit("need"), S0, Opt(Lit("a"))>>), Lit("fastest"),
                        Lit("cheapest"), Lit("quickest"), Lit("comfortable"),
                        Lit("direct")>>), WB>>) >>],
    [intent |-> INTENTS.TRAVEL_SEARCH, patterns |-> <<
        Cat(<<WB, Alt(<<Lit("travel"), Lit("go"), Lit("going"), Lit("trip"), Lit("journey"),
                        Lit("route"), Lit("from"),
                        Cat(<<Lit("to"), WB, Star(Cls(AnyChars)), WB, Lit("to"), WB>>),
                        Lit("book"),
                        Cat(<<Lit("find"), S0, Opt(Cat(<<Lit("a"), S0>>)),
                              Words(<<"bus", "train", "route", "trip">>)>>)>>)>>),
        Cat(<<WB, Words(<<"bus", "train", "flight">>), S0,
              Words(<<"from", "to", "between">>), WB>>),
        Cat(<<WB, Lit("from"), S1, W1, S1, Lit("to"), S1, W1>>),
        Cat(<<WB, Lit("i"), S0, Words(<<"want", "need", "have">>), S0, Lit("to"), S0,
              Alt(<<Lit("go"), Lit("travel"), Lit("reach"), Lit("visit"),
                    Cat(<<Lit("get"), S0, Lit("to")>>)>>), WB>>),
        Cat(<<WB, Lit("take"), S0, Lit("me"), S0, Words(<<"to", "from">>), WB>>) >>] >>

(***************************************************************************)
(* JavaScript values: null/undefined is the empty set, a value v is {v}.   *)
(* An object is a function from its own keys to such values.               *)
(***************************************************************************)
Null == {}
Some(v) == {v}
The(m) == CHOOSE v \in m : TRUE
\* obj.key is truthy (the key is present and its value is not null)
Truthy(obj, key) == key \in DOMAIN obj /\ obj[key] # Null
EmptyObject == [key \in {} |-> Null]
\* A faulty spread: the first object is forgotten
SpreadForgetsFirst(a, b) == b

\* { ...a, ...b }
Spread(a, b) ==
    [key \in DOMAIN a \cup DOMAIN b |-> IF key \in DOMAIN b THEN b[key] ELSE a[key]]
\* obj with obj[key] = value assigned
Assign(obj, key, value) == Spread(obj, [k \in {key} |-> value])

\* A function or a sequence with its values computed once
Table(f) == f @@ <<>>
Array(seq) == seq \o <<>>
\* const name = value; body
With(value, Body(_)) == Body(value)

\* Rationals as <<numerator, denominator>> with a positive denominator
RatLeq(a, b) == a[1] * b[2] <= b[1] * a[2]
RatMin(a, b) == IF RatLeq(a, b) THEN a ELSE b

(***************************************************************************)
(* The messages the clients send.  What the patterns find in a message     *)
(* depends on the message alone, so it is computed once per message.       *)
(***************************************************************************)
SessionIds == {"s1", "s2"}
OneSession == {"s1"}

Texts ==
    {"hello", "what can you do", "thanks", "bye", "ok", "compare",
     "from mumbai to pune", "from kolkata to delhi", "from pune to mumbai",
     "from mumbai", "travel to pune", "find a bus", "how much", "schedule",
     "prefer premium train", "select number 0", "select number 1", "select number 2"}

LongTexts == {"hello"}

ApiTexts ==
    {"from mumbai to pune", "from kolkata to delhi", "from pune to mumbai", "from mumbai",
     "compare", "select number 2"}

SelectionTexts == {"the first one", "option 2", "pick 0", "3 or 1"}

\* Texts handed to detectIntent directly: the ones of tests/nlp.test.js, texts
\* that match patterns of two intents, and texts that match none
ClassifyTexts ==
    {"Hello!", "Hi there", "Bye, see you later", "What can you do?", "Thank you so much!",
     "I want to go from Mumbai to Pune", "Find trains", "How much does it cost?",
     "Compare the options", "I'll take option 2", "asdfghjkl", "hello thanks", "thanks bye",
     "select number 2", "book a trip", "compare price", "ok", ""}

\* Texts handed to extractEntities directly: one or more of the location
\* patterns match each of them, with phrases that do or do not name a city
LocationTexts ==
    {"from mumbai to pune", "from nowhere to pune", "mumbai to pune",
     "trip to pune from mumbai", "to pune from mumbai", "visit pune", "from mumbai",
     "visit pune from mumbai", "travel to pune", "hello"}

KnownTexts ==
    Texts \cup LongTexts \cup ApiTexts \cup SelectionTexts \cup ClassifyTexts
        \cup LocationTexts \cup {"", "note"}

(***************************************************************************)
(* Intent detection                                                        *)
(***************************************************************************)
\* the number of patterns of the list that match the text
RECURSIVE CountMatches(_, _)
CountMatches(patterns, text) ==
    IF patterns = <<>> THEN 0
    ELSE (IF Test(Head(patterns), text) THEN 1 ELSE 0) + CountMatches(Tail(patterns), text)

\* A faulty scan: a later intent with an equal score replaces the best one
RECURSIVE BestIntentLaterWinsTies(_, _, _)
BestIntentLaterWinsTies(scores, n, best) ==
    IF n > Len(scores) THEN best
    ELSE BestIntentLaterWinsTies(scores, n + 1,
                    IF scores[n].score >= best.maxScore /\ scores[n].score > 0
                    THEN [maxScore |-> scores[n].score, bestIntent |-> scores[n].intent]
                    ELSE best)

\* The scan for the highest score: a later intent replaces the best one only
\* with a strictly greater score.
RECURSIVE BestIntent(_, _, _)
BestIntent(scores, n, best) ==
    IF n > Len(scores) THEN best
    ELSE BestIntent(scores, n + 1,
                    IF scores[n].score > best.maxScore
                    THEN [maxScore |-> scores[n].score, bestIntent |-> scores[n].intent]
                    ELSE best)

\* the pattern matches of every intent, in declaration order
PatternScores(normalized) ==
    With(INTENT_PATTERNS, LAMBDA entries :
        [n \in 1..Len(entries) |-> CountMatches(entries[n].patterns, normalized)])

PatternScoresOf ==
    Table([message \in KnownTexts |-> PatternScores(trim(toLowerCase(message)))])

\* Faulty scores: a known location does not boost travel_search
IntentScoresWithoutBoost(message, entities) ==
    With(INTENT_PATTERNS, LAMBDA entries :
    With(PatternScoresOf[message], LAMBDA matches :
        [n \in 1..Len(entries) |-> [intent |-> entries[n].intent, score |-> matches[n]]]))

\* Faulty scores: a known location adds 1 to travel_search instead of 2
IntentScoresBoostOfOne(message, entities) ==
    With(INTENT_PATTERNS, LAMBDA entries :
    With(PatternScoresOf[message], LAMBDA matches :
    With(IF Truthy(entities, "origin") \/ Truthy(entities, "destination") THEN 1 ELSE 0,
         LAMBDA boost :
        [n \in 1..Len(entries) |->
            [intent |-> entries[n].intent,
             score |-> matches[n]
                       + (IF entries[n].intent = INTENTS.TRAVEL_SEARCH THEN boost
                          ELSE 0)]])))

\* scores of all intents, travel_search boosted when a location is known
IntentScores(message, entities) ==
    With(INTENT_PATTERNS, LAMBDA entries :
    With(PatternScoresOf[message], LAMBDA matches :
    With(IF Truthy(entities, "origin") \/ Truthy(entities, "destination") THEN 2 ELSE 0,
         LAMBDA boost :
        [n \in 1..Len(entries) |->
            [intent |-> entries[n].intent,
             score |-> matches[n]
                       + (IF entries[n].intent = INTENTS.TRAVEL_SEARCH THEN boost
                          ELSE 0)]])))

\* A faulty result: the confidence is maxScore / 3 without the cap at 1
detectIntentUncapped(message, entities) ==
    With(BestIntent(IntentScores(message, entities), 1,
                    [maxScore |-> 0, bestIntent |-> INTENTS.UNKNOWN]),
         LAMBDA best :
        [intent |-> IF best.maxScore <= 0
                       /\ (Truthy(entities, "origin") \/ Truthy(entities, "destination"))
                    THEN INTENTS.TRAVEL_SEARCH ELSE best.bestIntent,
         confidence |-> <<best.maxScore, 3>>])

detectIntent(message, entities) ==
    With(BestIntent(IntentScores(message, entities), 1,
                    [maxScore |-> 0, bestIntent |-> INTENTS.UNKNOWN]),
         LAMBDA best :
        [intent |-> IF best.maxScore <= 0
                       /\ (Truthy(entities, "origin") \/ Truthy(entities, "destination"))
                    THEN INTENTS.TRAVEL_SEARCH ELSE best.bestIntent,
         confidence |-> RatMin(<<best.maxScore, 3>>, <<1, 1>>)])

(***************************************************************************)
(* City name database (with aliases), in declaration order                 *)
(***************************************************************************)
CITY_ALIASES == <<
    <<"mumbai", "Mumbai">>, <<"bombay", "Mumbai">>, <<"bom", "Mumbai">>,
    <<"delhi", "Delhi">>, <<"new delhi", "Delhi">>, <<"dilli", "Delhi">>,
    <<"pune", "Pune">>, <<"poona", "Pune">>,
    <<"bangalore", "Bangalore">>, <<"bengaluru", "Bangalore">>, <<"blr", "Bangalore">>,
    <<"chennai", "Chennai">>, <<"madras", "Chennai">>,
    <<"hyderabad", "Hyderabad">>, <<"hyd", "Hyderabad">>,
    <<"kolkata", "Kolkata">>, <<"calcutta", "Kolkata">>, <<"cal", "Kolkata">>,
    <<"jaipur", "Jaipur">>, <<"ahmedabad", "Ahmedabad">>, <<"amd", "Ahmedabad">>,
    <<"goa", "Goa">>, <<"panaji", "Goa">>, <<"lucknow", "Lucknow">> >>

\* text.replace(/[^a-z\s]/gi, '')
RECURSIVE KeepLettersAndSpaces(_)
KeepLettersAndSpaces(s) ==
    IF s = "" THEN ""
    ELSE (IF CharAt(s, 1) \in LetterOrSpace THEN CharAt(s, 1) ELSE "")
         \o KeepLettersAndSpaces(SubSeq(s, 2, Len(s)))

\* A faulty resolution: the text is not put in lower case
resolveCityCaseSensitive(text) ==
    IF text = "" THEN Null
    ELSE With(CITY_ALIASES, LAMBDA aliases :
         With(trim(KeepLettersAndSpaces(text)), LAMBDA cleaned :
         With({n \in 1..Len(aliases) : aliases[n][1] = cleaned}, LAMBDA direct :
         With({n \in 1..Len(aliases) : includes(cleaned, aliases[n][1])
                                       \/ includes(aliases[n][1], cleaned)},
              LAMBDA partial :
             IF direct # {} THEN Some(aliases[Min(direct)][2])
             ELSE IF partial # {} THEN Some(aliases[Min(partial)][2])
             ELSE Null))))

resolveCity(text) ==
    IF text = "" THEN Null
    ELSE With(CITY_ALIASES, LAMBDA aliases :
         With(toLowerCase(trim(KeepLettersAndSpaces(text))), LAMBDA cleaned :
         With({n \in 1..Len(aliases) : aliases[n][1] = cleaned}, LAMBDA direct :
         With({n \in 1..Len(aliases) : includes(cleaned, aliases[n][1])
                                       \/ includes(aliases[n][1], cleaned)},
              LAMBDA partial :
             IF direct # {} THEN Some(aliases[Min(direct)][2])
             ELSE IF partial # {} THEN Some(aliases[Min(partial)][2])
             ELSE Null))))

(***************************************************************************)
(* Entity extraction                                                       *)
(***************************************************************************)
\* The end of the longest run of [a-z\s] characters that starts at position a
RECURSIVE RunEnd(_, _)
RunEnd(s, a) ==
    IF a < Len(s) /\ CharAt(s, a + 1) \in LetterOrSpace THEN RunEnd(s, a + 1) ELSE a

\* String.prototype.match for a pattern  pre ([a-z\s]+?) mid ([a-z\s]+?) post :
\* the leftmost match, each lazy group as short as the rest of the pattern
\* allows, each greedy part before it as long as it allows.  The result is the
\* pair of captured groups, or Null when the pattern matches nowhere.
MatchTwoGroups(s, pre, mid, post) ==
    LET Ds(c) == {d \in (c + 1)..RunEnd(s, c) : Ends(post, s, d) # {}}
        Cs(b) == {c \in Ends(mid, s, b) : Ds(c) # {}}
        Bs(a) == {b \in (a + 1)..RunEnd(s, a) : Cs(b) # {}}
        As(p) == {a \in Ends(pre, s, p) : Bs(a) # {}}
        Ps == {p \in 0..Len(s) : As(p) # {}}
    IN  IF Ps = {} THEN Null
        ELSE LET a == Max(As(Min(Ps)))
                 b == Min(Bs(a))
                 c == Max(Cs(b))
                 d == Min(Ds(c))
             IN  Some(<<SubSeq(s, a + 1, b), SubSeq(s, c + 1, d)>>)

\* The same for a pattern  pre ([a-z\s]+?) post  with one group
MatchOneGroup(s, pre, post) ==
    LET Bs(a) == {b \in (a + 1)..RunEnd(s, a) : Ends(post, s, b) # {}}
        As(p) == {a \in Ends(pre, s, p) : Bs(a) # {}}
        Ps == {p \in 0..Len(s) : As(p) # {}}
    IN  IF Ps = {} THEN Null
        ELSE LET a == Max(As(Min(Ps)))
             IN  Some(<<SubSeq(s, a + 1, Min(Bs(a)))>>)

\* (?:\s+(?:w1|w2|...|$)|\s*$) : the lookahead-like tails of the location patterns
Tail_(ws) ==
    Alt(<<Cat(<<S1, Alt(<<Words(ws), EOL>>)>>), Cat(<<S0, EOL>>)>>)
\* (?:\s+(?:w1|w2|...)|\s*$)
TailNoEnd(ws) ==
    Alt(<<Cat(<<S1, Words(ws)>>), Cat(<<S0, EOL>>)>>)

fromToPost == Tail_(<<"by", "on", "in", "at", "tomorrow", "today", "next", "this">>)
goToPre ==
    Cat(<<Words(<<"go", "going", "travel", "reach", "visit", "get">>), S1,
          Opt(Cat(<<Lit("to"), S1>>))>>)
goToPost == TailNoEnd(<<"by", "on", "in", "at", "from", "tomorrow", "today">>)
fromPost == TailNoEnd(<<"by", "on", "in", "at", "to", "tomorrow", "today">>)

\* The location patterns with two groups and with one group, as <<pre, mid, post>>
\* and <<pre, post>>
TwoGroupPatterns ==
    [fromTo |-> <<Cat(<<Lit("from"), S1>>), Cat(<<S1, Lit("to"), S1>>), fromToPost>>,
     xToY |-> <<Cat(<<>>), Cat(<<S1, Lit("to"), S1>>), fromToPost>>,
     toFrom |-> <<Cat(<<Lit("to"), S1>>), Cat(<<S1, Lit("from"), S1>>),
                  Alt(<<Cls(SpaceChars), EOL>>)>>]
OneGroupPatterns ==
    [goTo |-> <<goToPre, goToPost>>,
     from |-> <<Cat(<<Lit("from"), S1>>), fromPost>>]

\* resolveCity(match[n].trim()) of a match with an n-th group
CityOfGroup(match, n) ==
    IF match = Null \/ n > Len(The(match)) THEN Null ELSE resolveCity(trim(The(match)[n]))

extractLocations(text) ==
    With(TwoGroupPatterns, LAMBDA two :
    With(OneGroupPatterns, LAMBDA one :
    With(Table([name \in DOMAIN two |->
                   MatchTwoGroups(text, two[name][1], two[name][2], two[name][3])])
         @@ Table([name \in DOMAIN one |-> MatchOneGroup(text, one[name][1], one[name][2])]),
         LAMBDA match :
    With(Table([name \in DOMAIN match |->
                   Array([n \in 1..2 |-> CityOfGroup(match[name], n)])]),
         LAMBDA city :
        IF match.fromTo # Null
        THEN [origin |-> city.fromTo[1], destination |-> city.fromTo[2]]
        ELSE IF match.xToY # Null /\ city.xToY[1] # Null /\ city.xToY[2] # Null
        THEN [origin |-> city.xToY[1], destination |-> city.xToY[2]]
        ELSE IF match.toFrom # Null
        THEN [destination |-> city.toFrom[1], origin |-> city.toFrom[2]]
        ELSE \* result.destination and result.origin are set when goTo and from match
             [destination |-> city.goTo[1], origin |-> city.from[1]]))))

\* \b(w1|w2|...)\b
WordPattern(ws) == Cat(<<WB, Words(ws), WB>>)

extractMode(text) ==
    IF Test(WordPattern(<<"train", "railway", "rail", "express", "rajdhani", "shatabdi">>),
            text)
    THEN Some("train")
    ELSE IF Test(WordPattern(<<"bus", "volvo", "sleeper", "msrtc", "rsrtc", "ksrtc">>), text)
    THEN Some("bus")
    ELSE IF Test(Cat(<<WB, Words(<<"any", "both", "either", "all">>), S0,
                       Opt(Words(<<"mode", "transport", "option">>)), WB>>), text)
    THEN Some("any")
    ELSE Null

\* The value of a string of digits, and parseInt: the value of the leading digits
DigitValue(c) == (CHOOSE i \in 1..Len(DigitChars) : CharAt(DigitChars, i) = c) - 1

RECURSIVE DigitsValue(_, _)
DigitsValue(s, acc) ==
    IF s = "" \/ CharAt(s, 1) \notin Digits THEN acc
    ELSE DigitsValue(SubSeq(s, 2, Len(s)), 10 * acc + DigitValue(CharAt(s, 1)))

parseInt(s) ==
    IF s = "" \/ CharAt(s, 1) \notin Digits THEN Null ELSE Some(DigitsValue(s, 0))

\* DATE_ALIASES in declaration order; the offset of 'this weekend' is null
DATE_ALIASES == <<
    <<"today", Some(0)>>, <<"tomorrow", Some(1)>>, <<"day after tomorrow", Some(2)>>,
    <<"day after", Some(2)>>, <<"next week", Some(7)>>, <<"this weekend", Null>> >>

DAY_NAMES == <<"sunday", "monday", "tuesday", "wednesday", "thursday", "friday", "saturday">>

monthNames == <<"jan", "feb", "mar", "apr", "may", "jun", "jul", "aug", "sep", "oct", "nov", "dec">>

\* (\d{1,2})[\/\-\s]((?:\d{1,2}|jan|...|dec)[a-z]*) : Null, or <<day, month>> with
\* month the zero-based month the code computes (not yet range-checked)
explicitDate(text) ==
    LET oneOrTwoDigits == Cat(<<D1, Opt(D1)>>)
        separator == Cls({"/", "-", " "})
        monthToken == Alt(<<oneOrTwoDigits, Words(monthNames)>>)
        As(p) == {a \in Ends(oneOrTwoDigits, text, p) :
                     Ends(Cat(<<separator, monthToken>>), text, a) # {}}
        Ps == {p \in 0..Len(text) : As(p) # {}}
    IN  With(Ps, LAMBDA starts :
        IF starts = {} THEN Null
        ELSE With(Min(starts), LAMBDA p :
             With(Max(As(p)), LAMBDA a :
             With(SubSeq(text, a + 2, Len(text)), LAMBDA monthStr :
             With({n \in 1..Len(monthNames) : startsWith(monthStr, monthNames[n])},
                  LAMBDA monthIndex :
                 Some(<<DigitsValue(SubSeq(text, p + 1, a), 0),
                        IF monthIndex # {} THEN Min(monthIndex) - 1
                        ELSE DigitsValue(SubSeq(monthStr, 1,
                                                Max(Ends(oneOrTwoDigits, monthStr, 0))), 0)
                             - 1>>))))))

\* The date is kept as the rule that produced it and its arguments (the day
\* offset from now, the weekday index, or day and month); the calendar string
\* the code derives from them and the wall clock is not modelled.
DateValue(rule, a, b) == [rule |-> rule, a |-> a, b |-> b]

extractDate(text) ==
    With({n \in 1..Len(DATE_ALIASES) : includes(text, DATE_ALIASES[n][1])}, LAMBDA aliases :
    With({n \in 1..Len(DAY_NAMES) : includes(text, DAY_NAMES[n])}, LAMBDA days :
    With(explicitDate(text), LAMBDA explicit :
        IF aliases # {}
        THEN With(DATE_ALIASES[Min(aliases)][2], LAMBDA offset :
                 IF offset = Null THEN Some(DateValue("weekend", 0, 0))
                 ELSE Some(DateValue("offset", The(offset), 0)))
        ELSE IF days # {} THEN Some(DateValue("weekday", Min(days) - 1, 0))
        ELSE IF explicit # Null /\ The(explicit)[2] >= 0 /\ The(explicit)[2] <= 11
        THEN Some(DateValue("date", The(explicit)[1], The(explicit)[2]))
        ELSE Null)))

\* TIME_PATTERNS in declaration order; clock times are <<hour, minute>>
TIME_PATTERNS == <<
    <<"morning", [start |-> <<6, 0>>, end |-> Some(<<12, 0>>), label |-> "morning"]>>,
    <<"afternoon", [start |-> <<12, 0>>, end |-> Some(<<17, 0>>), label |-> "afternoon"]>>,
    <<"evening", [start |-> <<17, 0>>, end |-> Some(<<21, 0>>), label |-> "evening"]>>,
    <<"night", [start |-> <<21, 0>>, end |-> Some(<<6, 0>>), label |-> "night"]>>,
    <<"early", [start |-> <<4, 0>>, end |-> Some(<<8, 0>>), label |-> "early morning"]>>,
    <<"late", [start |-> <<20, 0>>, end |-> Some(<<23, 59>>), label |-> "late night"]>> >>

\* (?:at|around|by|before|after)\s*(\d{1,2})(?::(\d{2}))?\s*(am|pm)? : Null, or the
\* anchor time; every part after the first digit is optional and greedy
explicitTime(text) ==
    LET intro == Cat(<<Words(<<"at", "around", "by", "before", "after">>), S0>>)
        As(p) == {a \in Ends(intro, text, p) : Ends(D1, text, a) # {}}
        Ps == {p \in 0..Len(text) : As(p) # {}}
    IN  With(Ps, LAMBDA starts :
        IF starts = {} THEN Null
        ELSE With(Max(As(Min(starts))), LAMBDA a :
             With(Max(Ends(Cat(<<D1, Opt(D1)>>), text, a)), LAMBDA h :
             With(Ends(Cat(<<Lit(":"), D1, D1>>), text, h), LAMBDA m :
             With(Max(Ends(S0, text, IF m = {} THEN h ELSE The(m))), LAMBDA ampmAt :
             With(SubSeq(text, ampmAt + 1, Len(text)), LAMBDA rest :
             With(IF startsWith(rest, "am") THEN "am"
                  ELSE IF startsWith(rest, "pm") THEN "pm" ELSE "", LAMBDA ampm :
             With(DigitsValue(SubSeq(text, a + 1, h), 0), LAMBDA hour :
             With(IF m = {} THEN 0 ELSE DigitsValue(SubSeq(text, h + 2, h + 3), 0),
                  LAMBDA minutes :
             With(IF ampm = "pm" /\ hour < 12 THEN hour + 12
                  ELSE IF ampm = "am" /\ hour = 12 THEN 0
                  ELSE hour, LAMBDA hour24 :
                 Some([start |-> <<hour24, minutes>>, end |-> Null,
                       label |-> "around"])))))))))))

extractTime(text) ==
    With({n \in 1..Len(TIME_PATTERNS) : includes(text, TIME_PATTERNS[n][1])},
         LAMBDA keywords :
        IF keywords # {} THEN Some(TIME_PATTERNS[Min(keywords)][2])
        ELSE explicitTime(text))

extractClass(text) ==
    IF Test(Cat(<<WB, Alt(<<Cat(<<Lit("first"), S0, Lit("class")>>),
                            Cat(<<Lit("1st"), S0, Lit("class")>>), Lit("fc"), Lit("1ac")>>),
                  WB>>), text)
    THEN Some("first")
    ELSE IF Test(Cat(<<WB, Alt(<<Cat(<<Lit("second"), S0, Lit("class")>>),
                                 Cat(<<Lit("2nd"), S0, Lit("class")>>), Lit("2ac")>>),
                       WB>>), text)
    THEN Some("second")
    ELSE IF Test(WordPattern(<<"sleeper", "sl", "3ac">>), text) THEN Some("sleeper")
    ELSE IF Test(Cat(<<WB, Alt(<<Lit("ac"), Cat(<<Lit("air"), S0, Lit("condition")>>)>>),
                       WB>>), text)
    THEN Some("ac")
    ELSE IF Test(WordPattern(<<"general", "gen", "unreserved">>), text) THEN Some("general")
    ELSE Null

extractBudget(text) ==
    IF Test(Cat(<<WB, Alt(<<Lit("cheap"), Lit("budget"), Cat(<<Lit("low"), S0, Lit("cost")>>),
                            Lit("affordable"), Lit("economy"), Lit("economical")>>), WB>>),
            text)
    THEN Some("budget")
    ELSE IF Test(WordPattern(<<"premium", "luxury", "comfortable", "best", "top", "vip">>),
                 text)
    THEN Some("premium")
    ELSE IF Test(WordPattern(<<"moderate", "balanced", "mid", "medium">>), text)
    THEN Some("balanced")
    ELSE Null

\* The slots of the entities record
Slots == {"origin", "destination", "mode", "date", "timePreference", "seatClass",
          "budgetPreference"}

\* A faulty merge: a null value overwrites the prior one as well
mergeWithContextCopiesNull(entities, context) == Spread(context, entities)

\* Every [key, value] of entities with a value that is not null overwrites the
\* copy of context.
mergeWithContext(entities, context) ==
    Spread(context, [key \in {k \in DOMAIN entities : entities[k] # Null} |-> entities[key]])

\* What the extractors find in the message alone, before the merge: a key is
\* set only when its extractor returned a value.
FoundEntities(message) ==
    With(trim(toLowerCase(message)), LAMBDA normalized :
    With(extractLocations(normalized), LAMBDA locations :
    With([origin |-> locations.origin, destination |-> locations.destination,
          mode |-> extractMode(normalized), date |-> extractDate(normalized),
          timePreference |-> extractTime(normalized),
          seatClass |-> extractClass(normalized),
          budgetPreference |-> extractBudget(normalized)], LAMBDA found :
        [key \in {k \in Slots : found[k] # Null} |-> found[key]])))

FoundEntitiesOf == Table([message \in KnownTexts |-> FoundEntities(message)])

ExtractedEntities(message) == FoundEntitiesOf[message]

\* A faulty extraction: the entities of the session do not fill in what the
\* message leaves out
extractEntitiesOfMessageOnly(message, context) == ExtractedEntities(message)

extractEntities(message, context) == mergeWithContext(ExtractedEntities(message), context)

(***************************************************************************)
(* Conversation context manager.  `sessions` is the Map from session id to *)
(* context object: a function whose domain is the set of ids with an entry.*)
(* The field `pushed` of a context is a history variable, not a field of   *)
(* the program: every turn pushed to `history` since the entry was created.*)
(***************************************************************************)
HISTORY_LIMIT == 20

NewContext ==
    [entities |-> EmptyObject, lastIntent |-> Null, turnCount |-> 0, history |-> <<>>,
     lastRoutes |-> Null, state |-> "idle", pushed |-> <<>>]

\* The sessions map after getContext(sessionId): an entry is created when absent
getContext(sessions, sessionId) ==
    IF sessionId \in DOMAIN sessions THEN sessions
    ELSE [id \in DOMAIN sessions \cup {sessionId} |->
             IF id = sessionId THEN NewContext ELSE sessions[id]]

\* Array.prototype.slice(-n)
SliceLast(seq, n) ==
    IF Len(seq) <= n THEN seq ELSE SubSeq(seq, Len(seq) - n + 1, Len(seq))

\* A faulty cut: the first 20 turns are kept and the newest one is dropped
PushHistoryKeepsOldest(history, message) ==
    LET pushed == Append(history, message)
    IN  IF Len(pushed) > HISTORY_LIMIT THEN SubSeq(pushed, 1, HISTORY_LIMIT) ELSE pushed

\* history.push(message), then the cut to the last 20
PushHistory(history, message) ==
    LET pushed == Append(history, message)
    IN  IF Len(pushed) > HISTORY_LIMIT THEN SliceLast(pushed, HISTORY_LIMIT) ELSE pushed

\* A faulty update: the supplied entities replace the stored ones
updateContextReplacesEntities(sessions, sessionId, updates) ==
    LET created == getContext(sessions, sessionId)
        ctx == created[sessionId]
        updated ==
            [ctx EXCEPT
                !.entities = IF Truthy(updates, "entities")
                             THEN The(updates.entities) ELSE @,
                !.lastIntent = IF Truthy(updates, "lastIntent") THEN updates.lastIntent ELSE @,
                !.state = IF Truthy(updates, "state") THEN The(updates.state) ELSE @,
                !.lastRoutes = IF Truthy(updates, "lastRoutes") THEN updates.lastRoutes ELSE @,
                !.turnCount = @ + 1,
                !.history = IF Truthy(updates, "message")
                            THEN PushHistory(@, The(updates.message)) ELSE @,
                !.pushed = IF Truthy(updates, "message")
                           THEN Append(@, The(updates.message)) ELSE @]
    IN  [created EXCEPT ![sessionId] = updated]

\* The sessions map after updateContext(sessionId, updates)
updateContext(sessions, sessionId, updates) ==
    LET created == getContext(sessions, sessionId)
        ctx == created[sessionId]
        updated ==
            [ctx EXCEPT
                !.entities = IF Truthy(updates, "entities")
                             THEN Spread(@, The(updates.entities)) ELSE @,
                !.lastIntent = IF Truthy(updates, "lastIntent") THEN updates.lastIntent ELSE @,
                !.state = IF Truthy(updates, "state") THEN The(updates.state) ELSE @,
                !.lastRoutes = IF Truthy(updates, "lastRoutes") THEN updates.lastRoutes ELSE @,
                !.turnCount = @ + 1,
                !.history = IF Truthy(updates, "message")
                            THEN PushHistory(@, The(updates.message)) ELSE @,
                !.pushed = IF Truthy(updates, "message")
                           THEN Append(@, The(updates.message)) ELSE @]
    IN  [created EXCEPT ![sessionId] = updated]

\* A faulty teardown: the session is reset but keeps its entities
clearContextKeepsEntities(sessions, sessionId) ==
    IF sessionId \in DOMAIN sessions
    THEN [sessions EXCEPT ![sessionId] = [NewContext EXCEPT !.entities = sessions[sessionId].entities]]
    ELSE sessions

\* A faulty teardown: sessions.clear() instead of sessions.delete(sessionId)
clearContextOfAll(sessions, sessionId) == [id \in {} |-> NewContext]

\* The sessions map after clearContext(sessionId)
clearContext(sessions, sessionId) ==
    [id \in DOMAIN sessions \ {sessionId} |-> sessions[id]]

\* A faulty check order: destination is reported before origin
getMissingEntitiesDestinationFirst(sessions, sessionId) ==
    LET ctx == getContext(sessions, sessionId)[sessionId]
    IN  (IF ~Truthy(ctx.entities, "destination") THEN <<"destination">> ELSE <<>>)
        \o (IF ~Truthy(ctx.entities, "origin") THEN <<"origin">> ELSE <<>>)

\* The required slots the (created) context of sessionId lacks, in check order
getMissingEntities(sessions, sessionId) ==
    LET ctx == getContext(sessions, sessionId)[sessionId]
    IN  (IF ~Truthy(ctx.entities, "origin") THEN <<"origin">> ELSE <<>>)
        \o (IF ~Truthy(ctx.entities, "destination") THEN <<"destination">> ELSE <<>>)

(***************************************************************************)
(* The seeded transport database.  A route id is the position of the       *)
(* route in the seed list (the code draws a fresh uuid); a schedule is its *)
(* departure time <<hour, minute>> (arrival time and platform are only     *)
(* displayed); every seeded schedule is active on all seven days.          *)
(***************************************************************************)
routeDefinitions == <<
    [id |-> "r1", from |-> "Mumbai", to |-> "Pune", mode |-> "train", operator |-> "Indian Railways",
     name |-> "Deccan Express", price |-> 350, duration |-> 195,
     schedules |-> << <<7, 0>>, <<12, 30>>, <<17, 0>> >>],
    [id |-> "r2", from |-> "Mumbai", to |-> "Pune", mode |-> "train", operator |-> "Indian Railways",
     name |-> "Shatabdi Express", price |-> 650, duration |-> 165,
     schedules |-> << <<6, 25>>, <<14, 0>> >>],
    [id |-> "r3", from |-> "Mumbai", to |-> "Pune", mode |-> "bus", operator |-> "MSRTC",
     name |-> "Shivneri AC", price |-> 450, duration |-> 210,
     schedules |-> << <<6, 0>>, <<8, 0>>, <<10, 0>>, <<14, 0>>, <<18, 0>>, <<22, 0>> >>],
    [id |-> "r4", from |-> "Mumbai", to |-> "Pune", mode |-> "bus", operator |-> "Neeta Travels",
     name |-> "Volvo AC Sleeper", price |-> 700, duration |-> 240,
     schedules |-> << <<21, 0>>, <<23, 0>> >>],
    [id |-> "r5", from |-> "Delhi", to |-> "Jaipur", mode |-> "train", operator |-> "Indian Railways",
     name |-> "Ajmer Shatabdi", price |-> 755, duration |-> 275,
     schedules |-> << <<6, 5>>, <<16, 55>> >>],
    [id |-> "r6", from |-> "Delhi", to |-> "Jaipur", mode |-> "bus", operator |-> "RSRTC",
     name |-> "Volvo AC", price |-> 850, duration |-> 330,
     schedules |-> << <<6, 0>>, <<14, 0>>, <<22, 0>> >>],
    [id |-> "r7", from |-> "Bangalore", to |-> "Chennai", mode |-> "train", operator |-> "Indian Railways",
     name |-> "Brindavan Express", price |-> 260, duration |-> 305,
     schedules |-> << <<7, 50>>, <<14, 20>> >>],
    [id |-> "r8", from |-> "Bangalore", to |-> "Chennai", mode |-> "train", operator |-> "Indian Railways",
     name |-> "Shatabdi Express", price |-> 820, duration |-> 245,
     schedules |-> << <<6, 0>> >>],
    [id |-> "r9", from |-> "Bangalore", to |-> "Chennai", mode |-> "bus", operator |-> "KSRTC",
     name |-> "Airavat Club Class", price |-> 950, duration |-> 360,
     schedules |-> << <<7, 0>>, <<15, 0>>, <<22, 30>> >>],
    [id |-> "r10", from |-> "Mumbai", to |-> "Delhi", mode |-> "train", operator |-> "Indian Railways",
     name |-> "Rajdhani Express", price |-> 2025, duration |-> 960,
     schedules |-> << <<16, 35>> >>],
    [id |-> "r11", from |-> "Mumbai", to |-> "Delhi", mode |-> "train", operator |-> "Indian Railways",
     name |-> "August Kranti Rajdhani", price |-> 1850, duration |-> 1035,
     schedules |-> << <<17, 40>> >>],
    [id |-> "r12", from |-> "Mumbai", to |-> "Goa", mode |-> "train", operator |-> "Indian Railways",
     name |-> "Konkan Kanya Express", price |-> 595, duration |-> 690,
     schedules |-> << <<23, 0>> >>],
    [id |-> "r13", from |-> "Mumbai", to |-> "Goa", mode |-> "bus", operator |-> "Paulo Travels",
     name |-> "Volvo Multi-Axle", price |-> 1200, duration |-> 720,
     schedules |-> << <<18, 0>>, <<20, 0>> >>],
    [id |-> "r14", from |-> "Hyderabad", to |-> "Bangalore", mode |-> "train", operator |-> "Indian Railways",
     name |-> "Kacheguda Express", price |-> 455, duration |-> 690,
     schedules |-> << <<18, 0>> >>],
    [id |-> "r15", from |-> "Hyderabad", to |-> "Bangalore", mode |-> "bus", operator |-> "APSRTC",
     name |-> "Garuda Plus", price |-> 1100, duration |-> 600,
     schedules |-> << <<20, 0>>, <<22, 0>> >>],
    [id |-> "r16", from |-> "Delhi", to |-> "Lucknow", mode |-> "train", operator |-> "Indian Railways",
     name |-> "Swarna Shatabdi", price |-> 950, duration |-> 390,
     schedules |-> << <<6, 10>> >>],
    [id |-> "r17", from |-> "Delhi", to |-> "Lucknow", mode |-> "bus", operator |-> "UPSRTC",
     name |-> "AC Sleeper", price |-> 800, duration |-> 540,
     schedules |-> << <<20, 0>>, <<22, 0>> >>],
    [id |-> "r18", from |-> "Pune", to |-> "Bangalore", mode |-> "train", operator |-> "Indian Railways",
     name |-> "Udyan Express", price |-> 680, duration |-> 1110,
     schedules |-> << <<11, 45>> >>],
    [id |-> "r19", from |-> "Pune", to |-> "Bangalore", mode |-> "bus", operator |-> "VRL Travels",
     name |-> "Multi-Axle Volvo", price |-> 1400, duration |-> 780,
     schedules |-> << <<17, 0>>, <<20, 0>> >>],
    [id |-> "r20", from |-> "Chennai", to |-> "Hyderabad", mode |-> "train", operator |-> "Indian Railways",
     name |-> "Charminar Express", price |-> 545, duration |-> 780,
     schedules |-> << <<18, 30>> >>],
    [id |-> "r21", from |-> "Chennai", to |-> "Hyderabad", mode |-> "bus", operator |-> "Orange Travels",
     name |-> "AC Sleeper", price |-> 950, duration |-> 720,
     schedules |-> << <<19, 0>>, <<21, 0>> >>],
    [id |-> "r22", from |-> "Ahmedabad", to |-> "Mumbai", mode |-> "train", operator |-> "Indian Railways",
     name |-> "Karnavati Express", price |-> 460, duration |-> 420,
     schedules |-> << <<6, 0>>, <<23, 15>> >>],
    [id |-> "r23", from |-> "Ahmedabad", to |-> "Mumbai", mode |-> "bus", operator |-> "Eagle Travels",
     name |-> "AC Sleeper", price |-> 750, duration |-> 480,
     schedules |-> << <<20, 0>>, <<22, 0>> >>],
    [id |-> "r24", from |-> "Kolkata", to |-> "Delhi", mode |-> "train", operator |-> "Indian Railways",
     name |-> "Rajdhani Express", price |-> 2250, duration |-> 1020,
     schedules |-> << <<16, 50>> >>] >>

DAYS_OF_WEEK == 0..6

\* A faulty sort: an item goes before the earlier items that have the same key
RECURSIVE SortPairsTiesFirst(_, _, _)
SortPairsTiesFirst(items, keys, n) ==
    IF n = 0 THEN <<>>
    ELSE With(SortPairsTiesFirst(items, keys, n - 1), LAMBDA before :
         With(Min({k \in 0..Len(before) :
                      k = Len(before) \/ keys[n] <= before[k + 1][1]}), LAMBDA at :
             SubSeq(before, 1, at) \o << <<keys[n], items[n]>> >>
             \o SubSeq(before, at + 1, Len(before))))

\* Stable sort of items by ascending integer key (keys[i] is the key of items[i])
RECURSIVE SortPairs(_, _, _)
SortPairs(items, keys, n) ==
    IF n = 0 THEN <<>>
    ELSE \* item n goes after the items before it that have the same key
         With(SortPairs(items, keys, n - 1), LAMBDA before :
         With(Min({k \in 0..Len(before) :
                      k = Len(before) \/ keys[n] < before[k + 1][1]}), LAMBDA at :
             SubSeq(before, 1, at) \o << <<keys[n], items[n]>> >>
             \o SubSeq(before, at + 1, Len(before))))

StableSort(items, keys) ==
    With(SortPairs(items, keys, Len(items)), LAMBDA pairs :
        Array([n \in 1..Len(items) |-> pairs[n][2]]))

\* SelectSeq with the positions kept in order
Filter(seq, Keep(_)) == SelectSeq(seq, Keep)

(***************************************************************************)
(* Transport service                                                       *)
(***************************************************************************)
\* filterByTime: departures by hour, both ends of the interval included
filterByTime(schedules, timePreference) ==
    LET startHour == timePreference.start[1]
        endHour == IF timePreference.end # Null THEN The(timePreference.end)[1] ELSE 23
        Keep(sch) == LET depHour == sch.departure_time[1]
                     IN  IF startHour <= endHour
                         THEN depHour >= startHour /\ depHour <= endHour
                         ELSE depHour >= startHour \/ depHour <= endHour
    IN  Filter(schedules, Keep)

\* LOWER(name) of the query, computed once for each name of a seeded city
CityNames ==
    With(routeDefinitions, LAMBDA rows :
        {rows[n].from : n \in 1..Len(rows)} \cup {rows[n].to : n \in 1..Len(rows)})
LowerNames == Table([name \in CityNames |-> toLowerCase(name)])

\* searchRoutes(origin, destination, mode, options): the rows of the join in
\* ascending price order, each with its schedules, filtered and re-sorted
searchRoutes(origin, destination, mode, options) ==
    With(LowerNames, LAMBDA lower :
    With(LET Matches(rd) == /\ lower[rd.from] = lower[origin]
                            /\ lower[rd.to] = lower[destination]
                            /\ (mode # "any" => rd.mode = mode)
         IN  Filter(routeDefinitions, Matches), LAMBDA rows :
    With(StableSort(rows, Array([n \in 1..Len(rows) |-> rows[n].price])), LAMBDA byPrice :
    \* new Date(options.date).getDay(): some day of the week
    With(CHOOSE d \in DAYS_OF_WEEK : TRUE, LAMBDA dayOfWeek :
    With(LET OnDay(sch) == dayOfWeek \in sch.days_of_week
             SchedulesOf(rd) ==
                 With(Array([n \in 1..Len(rd.schedules) |->
                                [departure_time |-> rd.schedules[n],
                                 days_of_week |-> DAYS_OF_WEEK]]), LAMBDA all :
                 With(IF Truthy(options, "timePreference")
                      THEN filterByTime(all, The(options.timePreference)) ELSE all,
                      LAMBDA timed :
                     IF Truthy(options, "date") THEN Filter(timed, OnDay) ELSE timed))
         IN  Array([n \in 1..Len(byPrice) |->
                      With(byPrice[n], LAMBDA rd :
                          [id |-> rd.id, mode |-> rd.mode, operator |-> rd.operator,
                           route_name |-> rd.name, base_price |-> rd.price,
                           duration_minutes |-> rd.duration,
                           schedules |-> SchedulesOf(rd)])]), LAMBDA routes :
    With(IF Truthy(options, "budgetPreference") THEN The(options.budgetPreference) ELSE "",
         LAMBDA budget :
        IF budget \in {"budget", "premium"}
        THEN StableSort(routes,
                        Array([n \in 1..Len(routes) |->
                                  IF budget = "budget" THEN routes[n].base_price
                                  ELSE 0 - routes[n].base_price]))
        ELSE routes))))))

(***************************************************************************)
(* Route planner.  Weights and operator scores are kept in twentieths      *)
(* (0.3 = 6/20, 0.85 = 17/20), and a score is the exact rational           *)
(* <<numerator, denominator>> of the weighted sum, over a denominator      *)
(* common to the routes of one candidate set.                              *)
(***************************************************************************)
getOperatorScore(operator) ==
    CASE operator = "Indian Railways" -> 17
      [] operator = "MSRTC" -> 14
      [] operator = "RSRTC" -> 13
      [] operator = "KSRTC" -> 15
      [] operator = "APSRTC" -> 14
      [] operator = "UPSRTC" -> 12
      [] operator = "Neeta Travels" -> 16
      [] operator = "Paulo Travels" -> 17
      [] operator = "VRL Travels" -> 16
      [] operator = "Eagle Travels" -> 14
      [] operator = "Orange Travels" -> 15
      [] OTHER -> 10

\* Faulty weights: the premium profile weighs the operator 0.5
ScoreWeightsPremiumOverweight(entities) ==
    LET budgetPreference == IF Truthy(entities, "budgetPreference")
                            THEN The(entities.budgetPreference) ELSE ""
    IN  IF budgetPreference = "budget"
        THEN [price |-> 10, duration |-> 5, schedule |-> 3, operator |-> 2]
        ELSE IF budgetPreference = "premium"
        THEN [price |-> 2, duration |-> 6, schedule |-> 4, operator |-> 10]
        ELSE [price |-> 6, duration |-> 6, schedule |-> 4, operator |-> 4]

\* the weights of the profile, in twentieths
ScoreWeights(entities) ==
    LET budgetPreference == IF Truthy(entities, "budgetPreference")
                            THEN The(entities.budgetPreference) ELSE ""
    IN  IF budgetPreference = "budget"
        THEN [price |-> 10, duration |-> 5, schedule |-> 3, operator |-> 2]
        ELSE IF budgetPreference = "premium"
        THEN [price |-> 2, duration |-> 6, schedule |-> 4, operator |-> 8]
        ELSE [price |-> 6, duration |-> 6, schedule |-> 4, operator |-> 4]

\* A faulty schedule score: the count is not capped at 5 departures
ScheduleScoreUncapped(scheduleCount) == scheduleCount

\* Math.min(scheduleCount / 5, 1), in fifths
ScheduleScore(scheduleCount) == IF scheduleCount < 5 THEN scheduleCount ELSE 5

\* Faulty tags: a route with the highest price is tagged cheapest as well
RouteTagsOfExtremes(route, minPrice, maxPrice, minDuration, scheduleCount) ==
    (IF route.base_price \in {minPrice, maxPrice} THEN <<"cheapest">> ELSE <<>>)
    \o (IF route.duration_minutes = minDuration THEN <<"fastest">> ELSE <<>>)
    \o (IF scheduleCount >= 4 THEN <<"frequent">> ELSE <<>>)

\* route._tags
RouteTags(route, minPrice, maxPrice, minDuration, scheduleCount) ==
    (IF route.base_price = minPrice THEN <<"cheapest">> ELSE <<>>)
    \o (IF route.duration_minutes = minDuration THEN <<"fastest">> ELSE <<>>)
    \o (IF scheduleCount >= 4 THEN <<"frequent">> ELSE <<>>)

\* A faulty scoring: the price factor is not inverted, a higher price scores more
scoreRoutesPriceNotInverted(routes, entities) ==
    IF Len(routes) = 0 THEN routes
    ELSE
    With({routes[n].base_price : n \in 1..Len(routes)}, LAMBDA prices :
    With({routes[n].duration_minutes : n \in 1..Len(routes)}, LAMBDA durations :
    With(Min(prices), LAMBDA minPrice :
    With(Max(prices), LAMBDA maxPrice :
    With(Min(durations), LAMBDA minDuration :
    With(Max(durations), LAMBDA maxDuration :
    With(ScoreWeights(entities), LAMBDA weights :
    \* the denominators of the price and duration factors (1 when all agree)
    With(IF maxPrice = minPrice THEN 1 ELSE maxPrice - minPrice, LAMBDA priceSpan :
    With(IF maxDuration = minDuration THEN 1 ELSE maxDuration - minDuration,
         LAMBDA durationSpan :
        LET Scored(route) ==
            With(IF maxPrice = minPrice THEN priceSpan
                 ELSE route.base_price - minPrice, LAMBDA priceScore :
            With(IF maxDuration = minDuration THEN durationSpan
                 ELSE durationSpan - (route.duration_minutes - minDuration),
                 LAMBDA durationScore :
            With(Len(route.schedules), LAMBDA scheduleCount :
            With(ScheduleScore(scheduleCount), LAMBDA scheduleScore :
            With(getOperatorScore(route.operator), LAMBDA operatorScore :
                [id |-> route.id, mode |-> route.mode, operator |-> route.operator,
                 route_name |-> route.route_name, base_price |-> route.base_price,
                 duration_minutes |-> route.duration_minutes, schedules |-> route.schedules,
                 _score |->
                     <<weights.price * priceScore * (durationSpan * 100)
                         + weights.duration * durationScore * (priceSpan * 100)
                         + weights.schedule * scheduleScore * (priceSpan * durationSpan * 20)
                         + weights.operator * operatorScore * (priceSpan * durationSpan * 5),
                       2000 * priceSpan * durationSpan>>,
                 _tags |-> RouteTags(route, minPrice, maxPrice, minDuration,
                                     scheduleCount)])))))
        IN  Array([n \in 1..Len(routes) |-> Scored(routes[n])]))))))))))

scoreRoutes(routes, entities) ==
    IF Len(routes) = 0 THEN routes
    ELSE
    With({routes[n].base_price : n \in 1..Len(routes)}, LAMBDA prices :
    With({routes[n].duration_minutes : n \in 1..Len(routes)}, LAMBDA durations :
    With(Min(prices), LAMBDA minPrice :
    With(Max(prices), LAMBDA maxPrice :
    With(Min(durations), LAMBDA minDuration :
    With(Max(durations), LAMBDA maxDuration :
    With(ScoreWeights(entities), LAMBDA weights :
    \* the denominators of the price and duration factors (1 when all agree)
    With(IF maxPrice = minPrice THEN 1 ELSE maxPrice - minPrice, LAMBDA priceSpan :
    With(IF maxDuration = minDuration THEN 1 ELSE maxDuration - minDuration,
         LAMBDA durationSpan :
        LET Scored(route) ==
            With(IF maxPrice = minPrice THEN priceSpan
                 ELSE priceSpan - (route.base_price - minPrice), LAMBDA priceScore :
            With(IF maxDuration = minDuration THEN durationSpan
                 ELSE durationSpan - (route.duration_minutes - minDuration),
                 LAMBDA durationScore :
            With(Len(route.schedules), LAMBDA scheduleCount :
            With(ScheduleScore(scheduleCount), LAMBDA scheduleScore :
            With(getOperatorScore(route.operator), LAMBDA operatorScore :
                [id |-> route.id, mode |-> route.mode, operator |-> route.operator,
                 route_name |-> route.route_name, base_price |-> route.base_price,
                 duration_minutes |-> route.duration_minutes, schedules |-> route.schedules,
                 _score |->
                     <<weights.price * priceScore * (durationSpan * 100)
                         + weights.duration * durationScore * (priceSpan * 100)
                         + weights.schedule * scheduleScore * (priceSpan * durationSpan * 20)
                         + weights.operator * operatorScore * (priceSpan * durationSpan * 5),
                       2000 * priceSpan * durationSpan>>,
                 _tags |-> RouteTags(route, minPrice, maxPrice, minDuration,
                                     scheduleCount)])))))
        IN  Array([n \in 1..Len(routes) |-> Scored(routes[n])]))))))))))

\* routes.sort((a, b) => b._score - a._score): descending score, stable.  The
\* scores of one candidate set share their denominator.
SortByScore(routes) ==
    StableSort(routes, Array([n \in 1..Len(routes) |-> 0 - routes[n]._score[1]]))

\* routes.reduce((a, b) => key(a) < key(b) ? a : b): the scan from the left over
\* the keys of the routes; the result is the position of the route kept
RECURSIVE Reduce(_, _, _)
Reduce(keys, n, a) ==
    IF n > Len(keys) THEN a
    ELSE Reduce(keys, n + 1, IF keys[a] < keys[n] THEN a ELSE n)

\* A recommendation is its type, the route it names (none for time_match) and
\* the number it mentions; the wording is left out.
Recommendation(type, routeId, n) == [type |-> type, routeId |-> routeId, n |-> n]

\* Faulty recommendations: best value when the top route differs from either one
generateRecommendationsEitherDiffers(routes, entities) ==
    IF Len(routes) = 0 THEN <<>>
    ELSE
    With(routes[Reduce(Array([n \in 1..Len(routes) |-> routes[n].base_price]), 2, 1)],
         LAMBDA cheapest :
    With(routes[Reduce(Array([n \in 1..Len(routes) |-> routes[n].duration_minutes]), 2, 1)],
         LAMBDA fastest :
    With(routes[1], LAMBDA bestScored :
    With(LET HasSchedules(r) == Len(r.schedules) > 0
         IN  Len(Filter(routes, HasSchedules)), LAMBDA matching :
        (IF cheapest.id # fastest.id
         THEN <<Recommendation("cheapest", Some(cheapest.id), 0),
                Recommendation("fastest", Some(fastest.id), 0)>>
         ELSE <<>>)
        \o (IF bestScored.id # cheapest.id \/ bestScored.id # fastest.id
            THEN <<Recommendation("best_value", Some(bestScored.id), 0)>> ELSE <<>>)
        \o (IF Truthy(entities, "timePreference") /\ matching > 0
            THEN <<Recommendation("time_match", Null, matching)>> ELSE <<>>)))))

generateRecommendations(routes, entities) ==
    IF Len(routes) = 0 THEN <<>>
    ELSE
    With(routes[Reduce(Array([n \in 1..Len(routes) |-> routes[n].base_price]), 2, 1)],
         LAMBDA cheapest :
    With(routes[Reduce(Array([n \in 1..Len(routes) |-> routes[n].duration_minutes]), 2, 1)],
         LAMBDA fastest :
    With(routes[1], LAMBDA bestScored :
    With(LET HasSchedules(r) == Len(r.schedules) > 0
         IN  Len(Filter(routes, HasSchedules)), LAMBDA matching :
        (IF cheapest.id # fastest.id
         THEN <<Recommendation("cheapest", Some(cheapest.id), 0),
                Recommendation("fastest", Some(fastest.id), 0)>>
         ELSE <<>>)
        \o (IF bestScored.id # cheapest.id /\ bestScored.id # fastest.id
            THEN <<Recommendation("best_value", Some(bestScored.id), 0)>> ELSE <<>>)
        \o (IF Truthy(entities, "timePreference") /\ matching > 0
            THEN <<Recommendation("time_match", Null, matching)>> ELSE <<>>)))))

\* planRoutes after the lookup returned `found`: the scored list as the lookup
\* ordered it, the ranked list and the recommendations
PlanResult(found, entities) ==
    With(scoreRoutes(found, entities), LAMBDA scored :
    With(SortByScore(scored), LAMBDA routes :
        [scored |-> scored, routes |-> routes,
         recommendations |-> generateRecommendations(routes, entities)]))

\* planRoutes(entities).routes
\* transportService.searchRoutes(origin, destination, mode || 'any', {...})
SearchFor(entities) ==
    searchRoutes(The(entities.origin), The(entities.destination),
                 IF Truthy(entities, "mode") THEN The(entities.mode) ELSE "any",
                 [key \in {"timePreference", "date", "budgetPreference"} |->
                     IF key \in DOMAIN entities THEN entities[key] ELSE Null])

planRoutes(entities) ==
    IF ~Truthy(entities, "origin") \/ ~Truthy(entities, "destination") THEN <<>>
    ELSE PlanResult(SearchFor(entities), entities).routes

(***************************************************************************)
(* Turns and responses.  The content of a turn is the message text or the  *)
(* response; a response is kept as the decision the generator renders (its *)
(* tag, the routes it lists, a number, the names it mentions), the wording *)
(* and the random choice among equivalent wordings left out.               *)
(***************************************************************************)
Content(tag, text, routes, n, words) ==
    [tag |-> tag, text |-> text, routes |-> routes, n |-> n, words |-> words]
Text(message) == Content("text", message, <<>>, 0, <<>>)
Reply(tag) == Content(tag, "", <<>>, 0, <<>>)
Turn(role, content) == [role |-> role, content |-> content]

\* `${entities.key}` in a template
Shown(entities, key) == IF Truthy(entities, key) THEN The(entities[key]) ELSE "undefined"

Contains(seq, x) == \E n \in 1..Len(seq) : seq[n] = x

generateMissingInfo(missing, entities) ==
    IF Contains(missing, "origin") /\ Contains(missing, "destination")
    THEN Reply("ask_origin_and_destination")
    ELSE IF Contains(missing, "origin")
    THEN Content("ask_origin", "", <<>>, 0, <<Shown(entities, "destination")>>)
    ELSE IF Contains(missing, "destination")
    THEN Content("ask_destination", "", <<>>, 0, <<Shown(entities, "origin")>>)
    ELSE Reply("ask_more")

\* A faulty response: an empty list is presented as results
generateRouteResultsAlways(routes, entities) ==
    Content("route_results", "", routes, Len(routes),
            <<Shown(entities, "origin"), Shown(entities, "destination")>>)

generateRouteResults(routes, entities) ==
    IF Len(routes) = 0
    THEN Content("no_results", "", <<>>, 0,
                 <<Shown(entities, "origin"), Shown(entities, "destination")>>)
    ELSE Content("route_results", "", routes, Len(routes),
                 <<Shown(entities, "origin"), Shown(entities, "destination")>>)

(***************************************************************************)
(* Chat service.  A handler is a function of the sessions map and its      *)
(* arguments; its result is the sessions map it leaves, the response it    *)
(* returns (Null when it threw), and the number of route lookups it made.  *)
(* lookupOk is the environment: whether the database query of the lookup   *)
(* succeeds or throws.                                                     *)
(***************************************************************************)
Returned(sessions, response, lookups) ==
    [sessions |-> sessions, response |-> Some(response), lookups |-> lookups]
Threw(sessions, lookups) ==
    [sessions |-> sessions, response |-> Null, lookups |-> lookups]

\* A faulty handler: an empty result is not stored
handleTravelQueryKeepsOldRoutes(sessions, sessionId, entities, lookupOk) ==
    With(getMissingEntities(sessions, sessionId), LAMBDA missing :
        IF Len(missing) > 0
        THEN Returned(updateContext(sessions, sessionId, [state |-> Some("collecting_info")]),
                      generateMissingInfo(missing, entities), 0)
        ELSE With(updateContext(sessions, sessionId, [state |-> Some("showing_results")]),
                  LAMBDA showing :
             IF ~lookupOk THEN Threw(showing, 1)
             ELSE With(planRoutes(entities), LAMBDA routes :
                  Returned(updateContext(showing, sessionId,
                                         [lastRoutes |-> IF Len(routes) = 0 THEN Null
                                                         ELSE Some(routes)]),
                           generateRouteResults(routes, entities), 1))))

\* A faulty handler: the results phase is entered while slots are missing
handleTravelQueryShowsAtOnce(sessions, sessionId, entities, lookupOk) ==
    With(getMissingEntities(sessions, sessionId), LAMBDA missing :
        IF Len(missing) > 0
        THEN Returned(updateContext(sessions, sessionId, [state |-> Some("showing_results")]),
                      generateMissingInfo(missing, entities), 0)
        ELSE With(updateContext(sessions, sessionId, [state |-> Some("showing_results")]),
                  LAMBDA showing :
             IF ~lookupOk THEN Threw(showing, 1)
             ELSE With(planRoutes(entities), LAMBDA routes :
                  Returned(updateContext(showing, sessionId, [lastRoutes |-> Some(routes)]),
                           generateRouteResults(routes, entities), 1))))

handleTravelQuery(sessions, sessionId, entities, lookupOk) ==
    With(getMissingEntities(sessions, sessionId), LAMBDA missing :
        IF Len(missing) > 0
        THEN Returned(updateContext(sessions, sessionId, [state |-> Some("collecting_info")]),
                      generateMissingInfo(missing, entities), 0)
        ELSE With(updateContext(sessions, sessionId, [state |-> Some("showing_results")]),
                  LAMBDA showing :
             \* planRoutes throws when the lookup fails
             IF ~lookupOk THEN Threw(showing, 1)
             ELSE With(planRoutes(entities), LAMBDA routes :
                  Returned(updateContext(showing, sessionId, [lastRoutes |-> Some(routes)]),
                           generateRouteResults(routes, entities), 1))))

generateComparison(routes) ==
    IF Len(routes) < 2 THEN Reply("nothing_to_compare")
    ELSE Content("comparison", "", routes, Len(routes), <<>>)

\* A faulty handler: a known trip is searched again before the stored routes
\* are looked at
handleCompareRoutesSearchesFirst(sessions, sessionId, entities, lookupOk) ==
    With(getContext(sessions, sessionId), LAMBDA created :
    With(created[sessionId], LAMBDA ctx :
        IF Truthy(entities, "origin") /\ Truthy(entities, "destination")
        THEN handleTravelQuery(created, sessionId, entities, lookupOk)
        ELSE IF ctx.lastRoutes # Null /\ Len(The(ctx.lastRoutes)) > 0
        THEN Returned(created, generateComparison(The(ctx.lastRoutes)), 0)
        ELSE Returned(created, Reply("no_routes_to_compare"), 0)))

handleCompareRoutes(sessions, sessionId, entities, lookupOk) ==
    With(getContext(sessions, sessionId), LAMBDA created :
    With(created[sessionId], LAMBDA ctx :
        IF ctx.lastRoutes # Null /\ Len(The(ctx.lastRoutes)) > 0
        THEN Returned(created, generateComparison(The(ctx.lastRoutes)), 0)
        ELSE IF Truthy(entities, "origin") /\ Truthy(entities, "destination")
        THEN handleTravelQuery(created, sessionId, entities, lookupOk)
        ELSE Returned(created, Reply("no_routes_to_compare"), 0)))

handlePreference(sessions, sessionId, entities, lookupOk) ==
    With(getContext(sessions, sessionId), LAMBDA created :
        IF Truthy(entities, "origin") /\ Truthy(entities, "destination")
        THEN handleTravelQuery(created, sessionId, entities, lookupOk)
        ELSE Returned(created,
                      Content("preferences_noted", "", <<>>, 0,
                              (IF Truthy(entities, "mode") THEN <<The(entities.mode)>>
                               ELSE <<>>)
                              \o (IF Truthy(entities, "budgetPreference")
                                  THEN <<The(entities.budgetPreference)>> ELSE <<>>)
                              \o (IF Truthy(entities, "seatClass")
                                  THEN <<The(entities.seatClass)>> ELSE <<>>)), 0))

\* message.match(/(\d+)/): the first run of digits of the raw message
FirstNumber(message) ==
    With({p \in 0..Len(message) : Ends(D1, message, p) # {}}, LAMBDA starts :
        IF starts = {} THEN Null
        ELSE Some(SubSeq(message, Min(starts) + 1,
                         Max(Ends(Plus(D1), message, Min(starts))))))

FirstNumberOf == Table([message \in KnownTexts |-> FirstNumber(message)])

\* A faulty handler: the number is taken as a 0-based index
handleRouteSelectionZeroBased(sessions, sessionId, message) ==
    With(getContext(sessions, sessionId), LAMBDA created :
    With(created[sessionId], LAMBDA ctx :
    With(FirstNumberOf[message], LAMBDA numMatch :
        IF ctx.lastRoutes = Null \/ Len(The(ctx.lastRoutes)) = 0
        THEN Returned(created, Reply("nothing_to_select"), 0)
        ELSE With(IF numMatch = Null THEN 0 - 1 ELSE The(parseInt(The(numMatch))),
                  LAMBDA idx :
             IF numMatch # Null /\ idx >= 0 /\ idx < Len(The(ctx.lastRoutes))
             THEN Returned(created,
                           Content("selection_detail", "", <<The(ctx.lastRoutes)[idx + 1]>>,
                                   idx + 1, <<>>), 0)
             ELSE Returned(created,
                           Content("selection_prompt", "", <<>>, Len(The(ctx.lastRoutes)),
                                   <<>>), 0)))))

\* A faulty handler: a valid selection moves the session to the confirming phase
handleRouteSelectionConfirms(sessions, sessionId, message) ==
    With(getContext(sessions, sessionId), LAMBDA created :
    With(created[sessionId], LAMBDA ctx :
    With(FirstNumberOf[message], LAMBDA numMatch :
        IF ctx.lastRoutes = Null \/ Len(The(ctx.lastRoutes)) = 0
        THEN Returned(created, Reply("nothing_to_select"), 0)
        ELSE With(IF numMatch = Null THEN 0 - 1 ELSE The(parseInt(The(numMatch))) - 1,
                  LAMBDA idx :
             IF numMatch # Null /\ idx >= 0 /\ idx < Len(The(ctx.lastRoutes))
             THEN Returned(updateContext(created, sessionId, [state |-> Some("confirming")]),
                           Content("selection_detail", "", <<The(ctx.lastRoutes)[idx + 1]>>,
                                   idx + 1, <<>>), 0)
             ELSE Returned(created,
                           Content("selection_prompt", "", <<>>, Len(The(ctx.lastRoutes)),
                                   <<>>), 0)))))

handleRouteSelection(sessions, sessionId, message) ==
    With(getContext(sessions, sessionId), LAMBDA created :
    With(created[sessionId], LAMBDA ctx :
    With(FirstNumberOf[message], LAMBDA numMatch :
        IF ctx.lastRoutes = Null \/ Len(The(ctx.lastRoutes)) = 0
        THEN Returned(created, Reply("nothing_to_select"), 0)
        ELSE \* const idx = parseInt(numMatch[1]) - 1, inside if (numMatch)
             With(IF numMatch = Null THEN 0 - 1 ELSE The(parseInt(The(numMatch))) - 1,
                  LAMBDA idx :
             IF numMatch # Null /\ idx >= 0 /\ idx < Len(The(ctx.lastRoutes))
             THEN Returned(created,
                           Content("selection_detail", "", <<The(ctx.lastRoutes)[idx + 1]>>,
                                   idx + 1, <<>>), 0)
             ELSE Returned(created,
                           Content("selection_prompt", "", <<>>, Len(The(ctx.lastRoutes)),
                                   <<>>), 0)))))

\* A faulty switch: help resets the phase as greeting does
DispatchHelpResetsPhase(sessions, sessionId, message, entities, intent, lookupOk) ==
    With(INTENTS, LAMBDA INTENT :
    CASE intent = INTENT.GREETING ->
           Returned(updateContext(sessions, sessionId, [state |-> Some("idle")]),
                    Reply("greeting"), 0)
      [] intent = INTENT.HELP ->
           Returned(updateContext(sessions, sessionId, [state |-> Some("idle")]),
                    Reply("help"), 0)
      [] intent = INTENT.GOODBYE ->
           Returned(clearContext(sessions, sessionId), Reply("goodbye"), 0)
      [] intent = INTENT.THANKS -> Returned(sessions, Reply("thanks"), 0)
      [] intent \in {INTENT.TRAVEL_SEARCH, INTENT.SCHEDULE_QUERY, INTENT.PRICE_QUERY} ->
           handleTravelQuery(sessions, sessionId, entities, lookupOk)
      [] intent = INTENT.COMPARE_ROUTES ->
           handleCompareRoutes(sessions, sessionId, entities, lookupOk)
      [] intent = INTENT.ROUTE_PREFERENCE ->
           handlePreference(sessions, sessionId, entities, lookupOk)
      [] intent = INTENT.SELECT_ROUTE -> handleRouteSelection(sessions, sessionId, message)
      [] OTHER ->
           IF Truthy(entities, "origin") /\ Truthy(entities, "destination")
           THEN handleTravelQuery(sessions, sessionId, entities, lookupOk)
           ELSE Returned(sessions, Reply("unknown"), 0))

\* The switch of processMessage on the detected intent
Dispatch(sessions, sessionId, message, entities, intent, lookupOk) ==
    With(INTENTS, LAMBDA INTENT :
    CASE intent = INTENT.GREETING ->
           Returned(updateContext(sessions, sessionId, [state |-> Some("idle")]),
                    Reply("greeting"), 0)
      [] intent = INTENT.HELP -> Returned(sessions, Reply("help"), 0)
      [] intent = INTENT.GOODBYE ->
           Returned(clearContext(sessions, sessionId), Reply("goodbye"), 0)
      [] intent = INTENT.THANKS -> Returned(sessions, Reply("thanks"), 0)
      [] intent \in {INTENT.TRAVEL_SEARCH, INTENT.SCHEDULE_QUERY, INTENT.PRICE_QUERY} ->
           handleTravelQuery(sessions, sessionId, entities, lookupOk)
      [] intent = INTENT.COMPARE_ROUTES ->
           handleCompareRoutes(sessions, sessionId, entities, lookupOk)
      [] intent = INTENT.ROUTE_PREFERENCE ->
           handlePreference(sessions, sessionId, entities, lookupOk)
      [] intent = INTENT.SELECT_ROUTE -> handleRouteSelection(sessions, sessionId, message)
      [] OTHER ->
           IF Truthy(entities, "origin") /\ Truthy(entities, "destination")
           THEN handleTravelQuery(sessions, sessionId, entities, lookupOk)
           ELSE Returned(sessions, Reply("unknown"), 0))

\* A faulty service: the message is classified with the entities found in it
\* alone, not with the merged entities
processMessageClassifiesMessageAlone(sessions, sessionId, message, lookupOk) ==
    With(getContext(sessions, sessionId), LAMBDA created :
    With(extractEntities(message, created[sessionId].entities), LAMBDA entities :
    With(detectIntent(message, ExtractedEntities(message)), LAMBDA detected :
    With(updateContext(created, sessionId,
                       [entities |-> Some(entities), lastIntent |-> Some(detected.intent),
                        message |-> Some(Turn("user", Text(message)))]), LAMBDA afterUser :
    With(Dispatch(afterUser, sessionId, message, entities, detected.intent, lookupOk),
         LAMBDA handled :
        [sessions |-> IF handled.response = Null THEN handled.sessions
                      ELSE updateContext(handled.sessions, sessionId,
                                         [message |-> Some(Turn("assistant",
                                                                The(handled.response)))]),
         response |-> handled.response,
         lookups |-> handled.lookups,
         intent |-> detected.intent,
         confidence |-> detected.confidence,
         entities |-> entities])))))

\* processMessage(sessionId, message): the sessions map it leaves and what it
\* returned; `response` is Null when the call threw.
processMessage(sessions, sessionId, message, lookupOk) ==
    With(getContext(sessions, sessionId), LAMBDA created :
    With(extractEntities(message, created[sessionId].entities), LAMBDA entities :
    With(detectIntent(message, entities), LAMBDA detected :
    With(updateContext(created, sessionId,
                       [entities |-> Some(entities), lastIntent |-> Some(detected.intent),
                        message |-> Some(Turn("user", Text(message)))]), LAMBDA afterUser :
    With(Dispatch(afterUser, sessionId, message, entities, detected.intent, lookupOk),
         LAMBDA handled :
        [sessions |-> IF handled.response = Null THEN handled.sessions
                      ELSE updateContext(handled.sessions, sessionId,
                                         [message |-> Some(Turn("assistant",
                                                                The(handled.response)))]),
         response |-> handled.response,
         lookups |-> handled.lookups,
         intent |-> detected.intent,
         confidence |-> detected.confidence,
         entities |-> entities])))))

(***************************************************************************)
(* The state machine.  `sessions` is the map of ConversationContext;       *)
(* `last` records the most recent call (its arguments, the map before it,  *)
(* what it extracted, dispatched and returned); `sent` counts the calls;   *)
(* `probe` holds the arguments and the result of a call of a pure function.*)
(***************************************************************************)
VARIABLES sessions, last, sent, probe

vars == <<sessions, last, sent, probe>>

MaxMsgs == 2
MaxLong == 11
MaxApi == 3

Call(op, sessionId, message, before, intent, extracted, entities, response, lookups) ==
    [op |-> op, sessionId |-> sessionId, message |-> message, before |-> before,
     intent |-> intent, extracted |-> extracted, entities |-> entities,
     response |-> response, lookups |-> lookups]

NoSessions == [id \in {} |-> NewContext]
NoCall == Call("init", "", "", NoSessions, "", EmptyObject, EmptyObject, Null, 0)
NoProbe == [new |-> EmptyObject, prior |-> EmptyObject, merged |-> Null, context |-> EmptyObject]

Init ==
    /\ sessions = NoSessions
    /\ last = NoCall
    /\ sent = 0
    /\ probe = NoProbe

\* chatService.processMessage(sessionId, message)
Send(sessionId, message, lookupOk) ==
    \E result \in {processMessage(sessions, sessionId, message, lookupOk)} :
        /\ sessions' = result.sessions
        /\ last' = Call("processMessage", sessionId, message, sessions, result.intent,
                        ExtractedEntities(message), result.entities, result.response,
                        result.lookups)
        /\ sent' = sent + 1
        /\ UNCHANGED probe

\* chatService.handleCompareRoutes(sessionId, entities), called directly with
\* the entities of the session
CallCompare(sessionId, lookupOk) ==
    \E entities \in {getContext(sessions, sessionId)[sessionId].entities} :
    \E result \in {handleCompareRoutes(sessions, sessionId, entities, lookupOk)} :
        /\ sessions' = result.sessions
        /\ last' = Call("handleCompareRoutes", sessionId, "", sessions,
                        INTENTS.COMPARE_ROUTES, EmptyObject, entities, result.response,
                        result.lookups)
        /\ sent' = sent + 1
        /\ UNCHANGED probe

\* chatService.handleRouteSelection(sessionId, message), called directly
CallSelect(sessionId, message) ==
    \E result \in {handleRouteSelection(sessions, sessionId, message)} :
        /\ sessions' = result.sessions
        /\ last' = Call("handleRouteSelection", sessionId, message, sessions,
                        INTENTS.SELECT_ROUTE, EmptyObject,
                        getContext(sessions, sessionId)[sessionId].entities,
                        result.response, result.lookups)
        /\ sent' = sent + 1
        /\ UNCHANGED probe

\* context.updateContext(sessionId, { message }), called directly
UpdateMessage(sessionId, message) ==
    /\ sessions' = updateContext(sessions, sessionId,
                                 [message |-> Some(Turn("system", Text(message)))])
    /\ last' = Call("updateContext", sessionId, message, sessions, "", EmptyObject,
                    EmptyObject, Null, 0)
    /\ sent' = sent + 1
    /\ UNCHANGED probe

\* The chat: any client sends any message; the route lookup succeeds or throws
Chat ==
    /\ sent < MaxMsgs
    /\ \E sessionId \in SessionIds, message \in Texts, lookupOk \in BOOLEAN :
          Send(sessionId, message, lookupOk)

Next == Chat

Spec == Init /\ [][Next]_vars

\* A long conversation of one session, with direct appends to its history
LongChat ==
    /\ sent < MaxLong
    /\ \E sessionId \in OneSession, message \in LongTexts : Send(sessionId, message, TRUE)

LongUpdate ==
    /\ sent < MaxLong
    /\ \E sessionId \in OneSession : UpdateMessage(sessionId, "note")

NextLong == LongChat \/ LongUpdate

SpecLong == Init /\ [][NextLong]_vars

\* The chat of one session, with the handlers of the service also called directly
ApiChat ==
    /\ sent < MaxApi
    /\ \E sessionId \in OneSession, message \in ApiTexts, lookupOk \in BOOLEAN :
          Send(sessionId, message, lookupOk)

ApiCompare ==
    /\ sent < MaxApi
    /\ \E sessionId \in OneSession, lookupOk \in BOOLEAN : CallCompare(sessionId, lookupOk)

ApiSelect ==
    /\ sent < MaxApi
    /\ \E sessionId \in OneSession, message \in SelectionTexts : CallSelect(sessionId, message)

NextApi == ApiChat \/ ApiCompare \/ ApiSelect

SpecApi == Init /\ [][NextApi]_vars

\* mergeWithContext applied to every pair of small records: a key is absent,
\* null, or holds a value
MergeKeys == {"origin", "destination", "mode"}
Objects(values) == UNION {[keys -> values] : keys \in SUBSET MergeKeys}

InitMerge ==
    /\ sessions = NoSessions
    /\ last = NoCall
    /\ sent = 0
    /\ probe \in {[new |-> new, prior |-> prior, merged |-> Null, context |-> prior] :
                     new \in Objects({Null, Some("Delhi")}),
                     prior \in Objects({Null, Some("Pune")})}

\* const merged = mergeWithContext(new, prior); `context` is prior after the call
ApplyMerge ==
    /\ probe.merged = Null
    /\ probe' = [probe EXCEPT !.merged = Some(mergeWithContext(probe.new, probe.prior)),
                              !.context = probe.prior]
    /\ UNCHANGED <<sessions, last, sent>>

NextMerge == ApplyMerge

SpecMerge == InitMerge /\ [][NextMerge]_vars

\* detectIntent applied to a text and an entities object given by the caller
ClassifyEntities ==
    {EmptyObject,
     [origin |-> Some("Mumbai"), destination |-> Some("Pune")],
     [origin |-> Some("Mumbai")],
     [destination |-> Some("Pune")],
     [origin |-> Null, destination |-> Null, mode |-> Some("train")]}

InitClassify ==
    /\ sessions = NoSessions
    /\ last = NoCall
    /\ sent = 0
    /\ probe \in {[message |-> message, entities |-> entities, result |-> Null] :
                     message \in ClassifyTexts, entities \in ClassifyEntities}

\* const result = detectIntent(message, entities)
ApplyClassify ==
    /\ probe.result = Null
    /\ probe' = [probe EXCEPT !.result = Some(detectIntent(probe.message, probe.entities))]
    /\ UNCHANGED <<sessions, last, sent>>

NextClassify == ApplyClassify

SpecClassify == InitClassify /\ [][NextClassify]_vars

\* The planner applied to a candidate list given by the lookup: up to MaxRoutes
\* routes, each with a price, a duration, an operator and a number of departures
MaxRoutes == 3
CandidateIds == <<"c1", "c2", "c3", "c4", "c5">>
\* price, duration, operator and number of departures of a candidate: prices
\* and durations that agree or differ, operators with and without a known
\* reputation, and 0, 3, 4 or 6 departures
RouteKinds ==
    {<<0, 90, "City Lines", 3>>, <<0, 90, "Indian Railways", 6>>, <<0, 60, "City Lines", 3>>,
     <<100, 90, "Indian Railways", 6>>, <<100, 60, "UPSRTC", 4>>,
     <<250, 60, "City Lines", 3>>, <<250, 60, "UPSRTC", 4>>, <<250, 90, "Indian Railways", 6>>,
     <<0, 0, "Indian Railways", 0>>}
Departures(n) == [k \in 1..n |-> [departure_time |-> <<5 + k, 0>>, days_of_week |-> DAYS_OF_WEEK]]
CandidateLists ==
    UNION {{[n \in 1..len |->
                [id |-> CandidateIds[n], mode |-> "bus", operator |-> kind[n][3],
                 route_name |-> "", base_price |-> kind[n][1],
                 duration_minutes |-> kind[n][2], schedules |-> Departures(kind[n][4])]] :
               kind \in [1..len -> RouteKinds]} : len \in 0..MaxRoutes}
PlanEntities ==
    {EmptyObject, [budgetPreference |-> Some("budget")],
     [budgetPreference |-> Some("balanced")],
     [budgetPreference |-> Some("premium"), timePreference |-> Some(TIME_PATTERNS[1][2])]}

InitPlan ==
    /\ sessions = NoSessions
    /\ last = NoCall
    /\ sent = 0
    /\ probe \in {[found |-> found, entities |-> entities, result |-> Null] :
                     found \in CandidateLists, entities \in PlanEntities}

\* routes = scoreRoutes(found, entities); routes.sort(...); generateRecommendations
ApplyPlan ==
    /\ probe.result = Null
    /\ probe' = [probe EXCEPT !.result = Some(PlanResult(probe.found, probe.entities))]
    /\ UNCHANGED <<sessions, last, sent>>

NextPlan == ApplyPlan

SpecPlan == InitPlan /\ [][NextPlan]_vars

(***************************************************************************)
(* The entry paths.  The REST router and the WebSocket handler each build  *)
(* their own ChatService, so each has its own map of sessions; here        *)
(* `sessions` is the record of the two maps.  A request carries a session  *)
(* id and a message, each of which may be absent.  Map keys are strings in  *)
(* the model: UndefinedKey stands for the key `undefined`.                 *)
(***************************************************************************)
MaxRequests == 2
UndefinedKey == "(undefined)"
EntryPaths == {"POST /chat/message", "chat:message"}
EntrySessionIds == {Null, Some("s1")}
EntryMessages == {Null, Some(""), Some("   "), Some(" hello "), Some("from mumbai to pune")}

\* the outcome of a request: the map of the service, whether processMessage
\* was called, and what the caller is sent
Answered(served, called, status) ==
    [sessions |-> served, called |-> called, status |-> status]

\* !message || !message.trim()
BlankMessage(message) == message = Null \/ trim(The(message)) = ""

\* router.post('/chat/message', ...)
postChatMessage(served, sessionId, message, lookupOk) ==
    IF BlankMessage(message) THEN Answered(served, FALSE, "400 Message is required")
    ELSE IF sessionId = Null \/ The(sessionId) = ""
    THEN Answered(served, FALSE, "400 Session ID is required")
    ELSE With(processMessage(served, The(sessionId), trim(The(message)), lookupOk),
              LAMBDA response :
             Answered(response.sessions, TRUE,
                      IF response.response = Null THEN "500 Failed to process message"
                      ELSE "200"))

\* socket.on('chat:message', ...)
onChatMessage(served, sessionId, message, lookupOk) ==
    IF BlankMessage(message) THEN Answered(served, FALSE, "chat:error Empty message")
    ELSE With(processMessage(served,
                             IF sessionId = Null THEN UndefinedKey ELSE The(sessionId),
                             trim(The(message)), lookupOk),
              LAMBDA response :
             Answered(response.sessions, TRUE,
                      IF response.response = Null THEN "chat:error Failed to process"
                      ELSE "chat:response"))

Request(path, sessionId, message, before, called, status) ==
    [op |-> path, sessionId |-> sessionId, message |-> message, before |-> before,
     called |-> called, status |-> status]

InitEntry ==
    /\ sessions = [rest |-> NoSessions, socket |-> NoSessions]
    /\ last = Request("init", Null, Null, sessions, FALSE, "")
    /\ sent = 0
    /\ probe = NoProbe

\* a client posts to /chat/message
Post ==
    /\ sent < MaxRequests
    /\ \E sessionId \in EntrySessionIds, message \in EntryMessages, lookupOk \in BOOLEAN :
       \E answer \in {postChatMessage(sessions.rest, sessionId, message, lookupOk)} :
          /\ sessions' = [sessions EXCEPT !.rest = answer.sessions]
          /\ last' = Request("POST /chat/message", sessionId, message, sessions,
                             answer.called, answer.status)
    /\ sent' = sent + 1
    /\ UNCHANGED probe

\* a client emits chat:message on its socket
Emit ==
    /\ sent < MaxRequests
    /\ \E sessionId \in EntrySessionIds, message \in EntryMessages, lookupOk \in BOOLEAN :
       \E answer \in {onChatMessage(sessions.socket, sessionId, message, lookupOk)} :
          /\ sessions' = [sessions EXCEPT !.socket = answer.sessions]
          /\ last' = Request("chat:message", sessionId, message, sessions,
                             answer.called, answer.status)
    /\ sent' = sent + 1
    /\ UNCHANGED probe

NextEntry == Post \/ Emit

SpecEntry == InitEntry /\ [][NextEntry]_vars

(***************************************************************************)
(* The durable append.  The store is the sessions table (the ids that have *)
(* a row) and the messages table (the rows in insertion order).  The       *)
(* environment decides which statement of saveMessage, if any, throws.     *)
(***************************************************************************)
MaxSaved == 2
SaveTexts == {"hello", "bye", "find a bus", "from mumbai to pune"}
SaveOutcomes == {"ok", "queryOne throws", "insert session throws", "insert message throws"}
EmptyStore == [sessions |-> {}, messages |-> <<>>]
Saved(store, threw) == [store |-> store, threw |-> threw]

\* the statements inside the try block, up to the one that throws
TrySaveMessage(store, sessionId, role, content, outcome) ==
    IF outcome = "queryOne throws" THEN Saved(store, TRUE)
    ELSE IF sessionId \notin store.sessions /\ outcome = "insert session throws"
    THEN Saved(store, TRUE)
    ELSE With([store EXCEPT !.sessions = @ \cup {sessionId}], LAMBDA titled :
         IF outcome = "insert message throws" THEN Saved(titled, TRUE)
         ELSE Saved([titled EXCEPT !.messages =
                        Append(@, [session_id |-> sessionId, role |-> role,
                                   content |-> content])], FALSE))

\* A faulty append: the exception of a failed statement is not caught
saveMessageUncaught(store, sessionId, role, content, outcome) ==
    TrySaveMessage(store, sessionId, role, content, outcome)

\* saveMessage: try { ... } catch (error) { console.error(...) }
saveMessage(store, sessionId, role, content, outcome) ==
    Saved(TrySaveMessage(store, sessionId, role, content, outcome).store, FALSE)

\* processMessage with its two appends: the turn it returns (response Null when
\* it threw), the store it leaves and the appends it attempted
processMessageAndSave(served, store, sessionId, message, lookupOk, outcomes) ==
    With(processMessage(served, sessionId, message, lookupOk), LAMBDA turn :
        IF turn.response = Null
        THEN [turn |-> turn, store |-> store, attempted |-> <<>>]
        ELSE With(saveMessage(store, sessionId, "user", Text(message), outcomes[1]),
                  LAMBDA user :
             IF user.threw
             THEN [turn |-> [turn EXCEPT !.response = Null], store |-> user.store,
                   attempted |-> <<"user">>]
             ELSE With(saveMessage(user.store, sessionId, "assistant",
                                   The(turn.response), outcomes[2]), LAMBDA assistant :
                  [turn |-> IF assistant.threw THEN [turn EXCEPT !.response = Null]
                            ELSE turn,
                   store |-> assistant.store,
                   attempted |-> <<"user", "assistant">>])))

InitSave ==
    /\ sessions = NoSessions
    /\ last = NoCall
    /\ sent = 0
    /\ probe = [store |-> EmptyStore, before |-> EmptyStore, attempted |-> <<>>,
                outcomes |-> <<"ok", "ok">>, lookupOk |-> TRUE]

\* a client sends a message; the lookup and each append succeed or fail
SendAndSave ==
    /\ sent < MaxSaved
    /\ \E message \in SaveTexts, lookupOk \in BOOLEAN,
          outcomes \in SaveOutcomes \X SaveOutcomes :
       \E result \in {processMessageAndSave(sessions, probe.store, "s1", message,
                                            lookupOk, outcomes)} :
          /\ sessions' = result.turn.sessions
          /\ last' = Call("processMessage", "s1", message, sessions, result.turn.intent,
                          ExtractedEntities(message), result.turn.entities,
                          result.turn.response, result.turn.lookups)
          /\ probe' = [store |-> result.store, before |-> probe.store,
                       attempted |-> result.attempted, outcomes |-> outcomes,
                       lookupOk |-> lookupOk]
    /\ sent' = sent + 1

NextSave == SendAndSave

SpecSave == InitSave /\ [][NextSave]_vars

(***************************************************************************)
(* The ConversationContext on its own: its four methods called in any      *)
(* order.  `probe` holds the updates of the call and what it returned.     *)
(***************************************************************************)
MaxContextCalls == 3
SampleRoute == [id |-> 1, mode |-> "train", base_price |-> 450, duration_minutes |-> 195]
ContextUpdates ==
    {EmptyObject,
     [message |-> Some(Turn("user", Text("note")))],
     [entities |-> Some([origin |-> Some("Mumbai")]),
      lastIntent |-> Some(INTENTS.TRAVEL_SEARCH)],
     [entities |-> Some([origin |-> Some("Delhi")])],
     [entities |-> Some([destination |-> Some("Pune"), mode |-> Some("bus")])],
     [entities |-> Some([origin |-> Null, mode |-> Some("train")]),
      lastIntent |-> Some(INTENTS.HELP), message |-> Some(Turn("user", Text("hello")))],
     [state |-> Some("showing_results")],
     [state |-> Some("collecting_info"), lastRoutes |-> Null],
     [lastRoutes |-> Some(<<SampleRoute>>)],
     [lastRoutes |-> Some(<<>>), lastIntent |-> Null]}

ContextCall(op, sessionId, before) ==
    Call(op, sessionId, "", before, "", EmptyObject, EmptyObject, Null, 0)
\* `cleared` remembers the sessions that were cleared after they were used
ContextProbe(updates, returned, cleared) ==
    [updates |-> updates, returned |-> returned, cleared |-> cleared]

InitContext ==
    /\ sessions = NoSessions
    /\ last = NoCall
    /\ sent = 0
    /\ probe = ContextProbe(EmptyObject, Null, {})

\* context.getContext(sessionId)
CtxGet ==
    /\ sent < MaxContextCalls
    /\ \E sessionId \in SessionIds :
       \E created \in {getContext(sessions, sessionId)} :
          /\ sessions' = created
          /\ last' = ContextCall("getContext", sessionId, sessions)
          /\ probe' = ContextProbe(EmptyObject, Some(created[sessionId]), probe.cleared)
    /\ sent' = sent + 1

\* context.updateContext(sessionId, updates)
CtxUpdate ==
    /\ sent < MaxContextCalls
    /\ \E sessionId \in SessionIds, updates \in ContextUpdates :
       \E updated \in {updateContext(sessions, sessionId, updates)} :
          /\ sessions' = updated
          /\ last' = ContextCall("updateContext", sessionId, sessions)
          /\ probe' = ContextProbe(updates, Some(updated[sessionId]), probe.cleared)
    /\ sent' = sent + 1

\* context.clearContext(sessionId)
CtxClear ==
    /\ sent < MaxContextCalls
    /\ \E sessionId \in SessionIds :
          /\ sessions' = clearContext(sessions, sessionId)
          /\ last' = ContextCall("clearContext", sessionId, sessions)
          /\ probe' = ContextProbe(EmptyObject, Null,
                                  IF sessionId \in DOMAIN sessions
                                     /\ sessions[sessionId].turnCount > 0
                                  THEN probe.cleared \cup {sessionId} ELSE probe.cleared)
    /\ sent' = sent + 1

\* context.getMissingEntities(sessionId): it reads the context through getContext
CtxMissing ==
    /\ sent < MaxContextCalls
    /\ \E sessionId \in SessionIds :
          /\ sessions' = getContext(sessions, sessionId)
          /\ last' = ContextCall("getMissingEntities", sessionId, sessions)
          /\ probe' = ContextProbe(EmptyObject, Some(getMissingEntities(sessions, sessionId)),
                                  probe.cleared)
    /\ sent' = sent + 1

NextContext == CtxGet \/ CtxUpdate \/ CtxClear \/ CtxMissing

SpecContext == InitContext /\ [][NextContext]_vars

(***************************************************************************)
(* resolveCity on its own: a phrase is resolved, and what it resolved to   *)
(* is resolved again.                                                      *)
(***************************************************************************)
AliasKeys == {CITY_ALIASES[n][1] : n \in 1..Len(CITY_ALIASES)}
CanonicalCities == {CITY_ALIASES[n][2] : n \in 1..Len(CITY_ALIASES)}
CityPhrases ==
    AliasKeys \cup CanonicalCities
    \cup {"Bombay!", " new delhi ", "NEW DELHI", "del", "calcutta city", "a", "123", "xyz",
          "goa beach", "Poona.", "", "mumbai pune"}

InitResolve ==
    /\ sessions = NoSessions
    /\ last = NoCall
    /\ sent = 0
    /\ probe \in {[phrase |-> phrase, calls |-> 0, city |-> Null, again |-> Null] :
                     phrase \in CityPhrases}

\* resolveCity(phrase)
Resolve ==
    /\ probe.calls = 0
    /\ probe' = [probe EXCEPT !.calls = 1, !.city = resolveCity(probe.phrase)]
    /\ UNCHANGED <<sessions, last, sent>>

\* resolveCity(city), for the city the phrase resolved to
ResolveAgain ==
    /\ probe.calls = 1
    /\ probe.city # Null
    /\ probe' = [probe EXCEPT !.calls = 2, !.again = resolveCity(The(probe.city))]
    /\ UNCHANGED <<sessions, last, sent>>

NextResolve == Resolve \/ ResolveAgain

SpecResolve == InitResolve /\ [][NextResolve]_vars

(***************************************************************************)
(* formatDuration on its own.                                              *)
(***************************************************************************)
\* `${n}` for an integer n >= 0: its decimal digits
RECURSIVE NumberToString(_)
NumberToString(n) ==
    IF n < 10 THEN CharAt(DigitChars, n + 1)
    ELSE NumberToString(n \div 10) \o CharAt(DigitChars, (n % 10) + 1)

\* A faulty format: whole hours are written with their 0 minutes
formatDurationWithZeroMinutes(minutes) ==
    With(minutes \div 60, LAMBDA hours :
    With(minutes % 60, LAMBDA mins :
        IF hours = 0 THEN NumberToString(mins) \o "min"
        ELSE NumberToString(hours) \o "h " \o NumberToString(mins) \o "min"))

formatDuration(minutes) ==
    With(minutes \div 60, LAMBDA hours :
    With(minutes % 60, LAMBDA mins :
        IF hours = 0 THEN NumberToString(mins) \o "min"
        ELSE IF mins = 0 THEN NumberToString(hours) \o "h"
        ELSE NumberToString(hours) \o "h " \o NumberToString(mins) \o "min"))

MaxMinutes == 200

InitDuration ==
    /\ sessions = NoSessions
    /\ last = NoCall
    /\ sent = 0
    /\ probe \in {[minutes |-> minutes, text |-> Null] : minutes \in 0..MaxMinutes}

\* formatDuration(minutes)
Format ==
    /\ probe.text = Null
    /\ probe' = [probe EXCEPT !.text = Some(formatDuration(probe.minutes))]
    /\ UNCHANGED <<sessions, last, sent>>

NextDuration == Format

SpecDuration == InitDuration /\ [][NextDuration]_vars

(***************************************************************************)
(* processMessage calls in flight.  An async call runs until its first     *)
(* await, and each await hands the rest of the call to the microtask       *)
(* queue, which runs the continuations in the order they were queued.  The *)
(* lookup itself is synchronous (sql.js), so planRoutes has its result     *)
(* when it returns its promise.  A caller may start a call whenever no     *)
(* continuation is running.  `probe` holds the calls started, each with    *)
(* its locals and the await it is at, and the queue of continuations.      *)
(***************************************************************************)
MaxCalls == 2
RaceTexts == {"hello", "bye", "find a bus", "from mumbai to pune", "from kolkata to delhi"}
Suspended == {"awaits lookup", "awaits failed lookup", "awaits handler", "awaits failed handler"}

\* a call that has run up to an await or to its end
Running(served, message, lookupOk, pc, entities, intent, routes, response) ==
    [sessions |-> served,
     call |-> [message |-> message, lookupOk |-> lookupOk, pc |-> pc, entities |-> entities,
               intent |-> intent, routes |-> routes, response |-> response]]

\* the intents whose case of the switch calls handleTravelQuery
AsksForRoutes(intent, entities) ==
    \/ intent \in {INTENTS.TRAVEL_SEARCH, INTENTS.SCHEDULE_QUERY, INTENTS.PRICE_QUERY}
    \/ /\ intent \notin IntentNames \ {INTENTS.UNKNOWN}
       /\ Truthy(entities, "origin") /\ Truthy(entities, "destination")

\* processMessage from its start to its first await, or to its end when the
\* case of its intent has no await
BeginCall(served, sessionId, message, lookupOk) ==
    With(getContext(served, sessionId), LAMBDA created :
    With(extractEntities(message, created[sessionId].entities), LAMBDA entities :
    With(detectIntent(message, entities), LAMBDA detected :
    With(updateContext(created, sessionId,
                       [entities |-> Some(entities), lastIntent |-> Some(detected.intent),
                        message |-> Some(Turn("user", Text(message)))]), LAMBDA afterUser :
        IF AsksForRoutes(detected.intent, entities)
        THEN With(getMissingEntities(afterUser, sessionId), LAMBDA missing :
             IF Len(missing) > 0
             THEN Running(updateContext(afterUser, sessionId,
                                        [state |-> Some("collecting_info")]),
                          message, lookupOk, "awaits handler", entities, detected.intent,
                          <<>>, Some(generateMissingInfo(missing, entities)))
             ELSE Running(updateContext(afterUser, sessionId,
                                        [state |-> Some("showing_results")]),
                          message, lookupOk,
                          IF lookupOk THEN "awaits lookup" ELSE "awaits failed lookup",
                          entities, detected.intent,
                          IF lookupOk THEN planRoutes(entities) ELSE <<>>, Null))
        ELSE With(Dispatch(afterUser, sessionId, message, entities, detected.intent,
                           lookupOk), LAMBDA handled :
             IF detected.intent \in {INTENTS.COMPARE_ROUTES, INTENTS.ROUTE_PREFERENCE}
             THEN Running(handled.sessions, message, lookupOk,
                          IF handled.response = Null THEN "awaits failed handler"
                          ELSE "awaits handler",
                          entities, detected.intent, <<>>, handled.response)
             ELSE Running(updateContext(handled.sessions, sessionId,
                                        [message |-> Some(Turn("assistant",
                                                               The(handled.response)))]),
                          message, lookupOk, "returned", entities, detected.intent, <<>>,
                          handled.response))))))

\* A faulty continuation: the routes of the lookup are not stored
ResumeCallDropsRoutes(served, sessionId, call) ==
    CASE call.pc = "awaits lookup" ->
           Running(served, call.message, call.lookupOk, "awaits handler", call.entities,
                   call.intent, call.routes,
                   Some(generateRouteResults(call.routes, call.entities)))
      [] call.pc = "awaits failed lookup" ->
           Running(served, call.message, call.lookupOk, "awaits failed handler",
                   call.entities, call.intent, call.routes, Null)
      [] call.pc = "awaits handler" ->
           Running(updateContext(served, sessionId,
                                 [message |-> Some(Turn("assistant", The(call.response)))]),
                   call.message, call.lookupOk, "returned", call.entities, call.intent,
                   call.routes, call.response)
      [] OTHER ->
           Running(served, call.message, call.lookupOk, "threw", call.entities,
                   call.intent, call.routes, Null)

\* the continuation of a suspended call, up to its next await or to its end:
\* handleTravelQuery after `await planRoutes`, processMessage after the await
\* of its handler; a rejection travels up one await at a time
ResumeCall(served, sessionId, call) ==
    CASE call.pc = "awaits lookup" ->
           Running(updateContext(served, sessionId, [lastRoutes |-> Some(call.routes)]),
                   call.message, call.lookupOk, "awaits handler", call.entities,
                   call.intent, call.routes,
                   Some(generateRouteResults(call.routes, call.entities)))
      [] call.pc = "awaits failed lookup" ->
           Running(served, call.message, call.lookupOk, "awaits failed handler",
                   call.entities, call.intent, call.routes, Null)
      [] call.pc = "awaits handler" ->
           Running(updateContext(served, sessionId,
                                 [message |-> Some(Turn("assistant", The(call.response)))]),
                   call.message, call.lookupOk, "returned", call.entities, call.intent,
                   call.routes, call.response)
      [] OTHER ->
           Running(served, call.message, call.lookupOk, "threw", call.entities,
                   call.intent, call.routes, Null)

InitRace ==
    /\ sessions = NoSessions
    /\ last = NoCall
    /\ sent = 0
    /\ probe = [calls |-> <<>>, queue |-> <<>>, overlapped |-> FALSE]

\* a caller calls processMessage('s1', message)
StartCall ==
    /\ sent < MaxCalls
    /\ \E message \in RaceTexts, lookupOk \in BOOLEAN :
       \E begun \in {BeginCall(sessions, "s1", message, lookupOk)} :
          /\ sessions' = begun.sessions
          /\ probe' = [calls |-> Append(probe.calls, begun.call),
                       queue |-> IF begun.call.pc \in Suspended
                                 THEN Append(probe.queue, Len(probe.calls) + 1)
                                 ELSE probe.queue,
                       overlapped |-> probe.overlapped \/ probe.queue # <<>>]
    /\ sent' = sent + 1
    /\ UNCHANGED last

\* the microtask queue runs its first continuation
RunMicrotask ==
    /\ probe.queue # <<>>
    /\ \E k \in {Head(probe.queue)} :
       \E resumed \in {ResumeCall(sessions, "s1", probe.calls[k])} :
          /\ sessions' = resumed.sessions
          /\ probe' = [probe EXCEPT !.calls[k] = resumed.call,
                                    !.queue = IF resumed.call.pc \in Suspended
                                              THEN Append(Tail(@), k) ELSE Tail(@)]
    /\ UNCHANGED <<last, sent>>

NextRace == StartCall \/ RunMicrotask

SpecRace == InitRace /\ [][NextRace]_vars

(***************************************************************************)
(* The chat:message handler with its delay.  The handler checks the        *)
(* message, then awaits a timer of 300 to 1000 ms before it calls          *)
(* processMessage; messages that arrive less than 700 ms apart have timers *)
(* that may fire in either order.  A timer callback and the microtasks it  *)
(* queues run to their end before the next timer callback, so the call     *)
(* made by one timer is over when the next one starts.  `probe` holds the  *)
(* messages in the order received, the timers pending and the order in     *)
(* which processMessage was invoked.                                       *)
(***************************************************************************)
MaxReceived == 3
SocketMessages == {Some("hello"), Some("from mumbai to pune"), Some(" bye "), Some("   ")}

InitSocket ==
    /\ sessions = NoSessions
    /\ last = NoCall
    /\ sent = 0
    /\ probe = [received |-> <<>>, waiting |-> {}, invoked |-> <<>>]

\* chat:message arrives: the check of the message, then setTimeout
ReceiveMessage ==
    /\ sent < MaxReceived
    /\ \E message \in SocketMessages :
          probe' = [probe EXCEPT !.received = Append(@, message),
                                 !.waiting = IF BlankMessage(message) THEN @
                                             ELSE @ \cup {Len(probe.received) + 1}]
    /\ sent' = sent + 1
    /\ UNCHANGED <<sessions, last>>

\* the timer of a waiting message fires: processMessage(sessionId, message.trim())
TimerFires ==
    /\ \E k \in probe.waiting, lookupOk \in BOOLEAN :
       \E message \in {trim(The(probe.received[k]))} :
       \E result \in {processMessage(sessions, "s1", message, lookupOk)} :
          /\ sessions' = result.sessions
          /\ last' = Call("processMessage", "s1", message, sessions, result.intent,
                          ExtractedEntities(message), result.entities, result.response,
                          result.lookups)
          /\ probe' = [probe EXCEPT !.waiting = @ \ {k}, !.invoked = Append(@, k)]
    /\ UNCHANGED sent

NextSocket == ReceiveMessage \/ TimerFires

SpecSocket == InitSocket /\ [][NextSocket]_vars

\* extractEntities applied to a text and the entities of a session given by
\* the caller; `locations` is what extractLocations found in the text
LocateContexts ==
    {EmptyObject,
     [origin |-> Some("Delhi")],
     [destination |-> Some("Delhi")],
     [origin |-> Some("Delhi"), destination |-> Some("Goa")],
     [mode |-> Some("train")],
     [origin |-> Some("Delhi"), mode |-> Some("bus")]}

InitLocate ==
    /\ sessions = NoSessions
    /\ last = NoCall
    /\ sent = 0
    /\ probe \in {[message |-> message, context |-> context, locations |-> Null,
                   entities |-> Null] :
                     message \in LocationTexts, context \in LocateContexts}

\* const entities = extractEntities(message, context)
ApplyLocate ==
    /\ probe.entities = Null
    /\ probe' = [probe EXCEPT
                    !.locations = Some(extractLocations(trim(toLowerCase(probe.message)))),
                    !.entities = Some(extractEntities(probe.message, probe.context))]
    /\ UNCHANGED <<sessions, last, sent>>

NextLocate == ApplyLocate

SpecLocate == InitLocate /\ [][NextLocate]_vars

\* The planner applied to two candidates of which the first of PairTrips is
\* cheaper and faster than the second, in either order, with any operator and
\* any number of departures up to MaxDepartures
MaxDepartures == 6
PairOperators ==
    {"Indian Railways", "MSRTC", "RSRTC", "KSRTC", "APSRTC", "UPSRTC", "Neeta Travels",
     "Paulo Travels", "VRL Travels", "Eagle Travels", "Orange Travels", "City Lines"}
\* price and duration of the two candidates
PairTrips == <<<<350, 195>>, <<450, 210>>>>
PairLists ==
    {[n \in 1..2 |->
         [id |-> CandidateIds[n], mode |-> "bus", operator |-> operators[n],
          route_name |-> "", base_price |-> PairTrips[trips[n]][1],
          duration_minutes |-> PairTrips[trips[n]][2],
          schedules |-> Departures(counts[n])]] :
        operators \in [1..2 -> PairOperators], counts \in [1..2 -> 0..MaxDepartures],
        trips \in {<<1, 2>>, <<2, 1>>}}

InitPair ==
    /\ sessions = NoSessions
    /\ last = NoCall
    /\ sent = 0
    /\ probe \in {[found |-> found, entities |-> EmptyObject, result |-> Null] :
                     found \in PairLists}

\* routes = scoreRoutes(found, entities); routes.sort(...); generateRecommendations
ApplyPair ==
    /\ probe.result = Null
    /\ probe' = [probe EXCEPT !.result = Some(PlanResult(probe.found, probe.entities))]
    /\ UNCHANGED <<sessions, last, sent>>

NextPair == ApplyPair

SpecPair == InitPair /\ [][NextPair]_vars

\* filterByTime applied to the departures of a route, as the schedules query
\* orders them (ORDER BY departure_time ASC), and a keyword time preference
MaxSchedules == 2
DepartureTimes ==
    {<<5, 30>>, <<6, 0>>, <<6, 30>>, <<11, 59>>, <<12, 0>>, <<12, 30>>, <<21, 0>>, <<23, 59>>}
MinutesOfDay(time) == time[1] * 60 + time[2]
ScheduleLists ==
    UNION {{list \in [1..len -> DepartureTimes] :
               \A n \in 1..(len - 1) : MinutesOfDay(list[n]) < MinutesOfDay(list[n + 1])} :
             len \in 0..MaxSchedules}

InitFilter ==
    /\ sessions = NoSessions
    /\ last = NoCall
    /\ sent = 0
    /\ probe \in {[schedules |-> [n \in 1..Len(list) |->
                                     [departure_time |-> list[n],
                                      days_of_week |-> DAYS_OF_WEEK]],
                   timePreference |-> TIME_PATTERNS[keyword][2], kept |-> Null] :
                     list \in ScheduleLists, keyword \in 1..Len(TIME_PATTERNS)}

\* route.schedules = this.filterByTime(route.schedules, options.timePreference)
ApplyFilter ==
    /\ probe.kept = Null
    /\ probe' = [probe EXCEPT
                    !.kept = Some(filterByTime(probe.schedules, probe.timePreference))]
    /\ UNCHANGED <<sessions, last, sent>>

NextFilter == ApplyFilter

SpecFilter == InitFilter /\ [][NextFilter]_vars

\* The events the chat:message handler emits on its socket.  `received` are
\* the messages of the events in order of arrival, `waiting` the events whose
\* timer has not fired, `threw` the events whose processMessage threw, and
\* `emitted` the log of socket.emit calls, each with the event it answers.
MaxEvents == 3
TypingMessages == {Null, Some("   "), Some(" hello "), Some("from mumbai to pune")}

Emission(k, event, isTyping) == [of |-> k, event |-> event, isTyping |-> isTyping]

\* the emits of the handler up to its await of the timer
EmitsOnArrival(k, message) ==
    IF BlankMessage(message) THEN <<Emission(k, "chat:error", Null)>>
    ELSE <<Emission(k, "chat:typing", Some(TRUE))>>

\* A faulty handler: the catch block does not stop the typing indicator
EmitsOnCompletionLeavesTypingOn(k, response) ==
    IF response # Null
    THEN <<Emission(k, "chat:typing", Some(FALSE)), Emission(k, "chat:response", Null)>>
    ELSE <<Emission(k, "chat:error", Null)>>

\* the emits after processMessage returned (`response`) or threw (Null)
EmitsOnCompletion(k, response) ==
    IF response # Null
    THEN <<Emission(k, "chat:typing", Some(FALSE)), Emission(k, "chat:response", Null)>>
    ELSE <<Emission(k, "chat:typing", Some(FALSE)), Emission(k, "chat:error", Null)>>

InitTyping ==
    /\ sessions = NoSessions
    /\ last = NoCall
    /\ sent = 0
    /\ probe = [received |-> <<>>, waiting |-> {}, threw |-> {}, emitted |-> <<>>]

\* chat:message arrives: the check of the message, the typing indicator, then
\* setTimeout
ReceiveEvent ==
    /\ sent < MaxEvents
    /\ \E message \in TypingMessages :
       \E k \in {Len(probe.received) + 1} :
          probe' = [probe EXCEPT !.received = Append(@, message),
                                 !.waiting = IF BlankMessage(message) THEN @ ELSE @ \cup {k},
                                 !.emitted = @ \o EmitsOnArrival(k, message)]
    /\ sent' = sent + 1
    /\ UNCHANGED <<sessions, last>>

\* the timer of a waiting event fires: processMessage, then the emits of the
\* try block or of the catch block
CompleteEvent ==
    /\ \E k \in probe.waiting, lookupOk \in BOOLEAN :
       \E message \in {trim(The(probe.received[k]))} :
       \E result \in {processMessage(sessions, "s1", message, lookupOk)} :
          /\ sessions' = result.sessions
          /\ last' = Call("processMessage", "s1", message, sessions, result.intent,
                          ExtractedEntities(message), result.entities, result.response,
                          result.lookups)
          /\ probe' = [probe EXCEPT
                          !.waiting = @ \ {k},
                          !.threw = IF result.response = Null THEN @ \cup {k} ELSE @,
                          !.emitted = @ \o EmitsOnCompletion(k, result.response)]
    /\ UNCHANGED sent

NextTyping == ReceiveEvent \/ CompleteEvent

SpecTyping == InitTyping /\ [][NextTyping]_vars

(***************************************************************************)
(* Properties.  They read the most recent call from `last`: the context of *)
(* its session before the call (as getContext creates it when absent) and  *)
(* after it.                                                               *)
(***************************************************************************)
Before == getContext(last.before, last.sessionId)[last.sessionId]
After == sessions[last.sessionId]
Processed == last.op = "processMessage"
Completed == Processed /\ last.response # Null
Present(entities) == {slot \in DOMAIN entities : entities[slot] # Null}
SlotOf(entities, slot) == IF slot \in DOMAIN entities THEN entities[slot] ELSE Null

\* C1: the history of a session holds at most 20 turns, and they are, in
\* order, the most recent min(n, 20) of the n turns appended since the session
\* was created (the 21st append drops the oldest turn).
C1_HistoryKeepsLatest20 ==
    \A id \in DOMAIN sessions :
        LET history == sessions[id].history
            appended == sessions[id].pushed
            n == Len(appended)
            kept == IF n < 20 THEN n ELSE 20
        IN  /\ Len(history) <= 20
            /\ Len(history) = kept
            /\ \A k \in 1..kept : history[k] = appended[n - kept + k]

\* a 21st turn was appended, and the oldest one is the one gone
C1_Witness ==
    \E id \in DOMAIN sessions :
        /\ Len(sessions[id].pushed) = 21
        /\ Len(sessions[id].history) = 20
        /\ sessions[id].pushed[1] # sessions[id].pushed[2]
        /\ sessions[id].history[1] = sessions[id].pushed[2]
        /\ sessions[id].history[20] = sessions[id].pushed[21]

\* C2: every processMessage call that completes increases the turnCount of the
\* session by exactly 1, whatever the intent (greeting, help, thanks, travel
\* query with or without results, select_route, unknown).
C2_TurnCountByOne ==
    (Completed /\ last.intent # INTENTS.GOODBYE) =>
        After.turnCount = Before.turnCount + 1

\* C3: after a message dispatched as goodbye the sessions map holds no entry
\* for the session.
C3_GoodbyeLeavesNoEntry ==
    (Completed /\ last.intent = INTENTS.GOODBYE) => last.sessionId \notin DOMAIN sessions

\* C4: slot filling is monotone: a processMessage call that is not dispatched
\* as goodbye keeps every slot the session held, and leaves the stored value of
\* every slot its extraction found nothing for unchanged.
C4_SlotFillingMonotone ==
    (Processed /\ last.intent # INTENTS.GOODBYE) =>
        /\ Present(Before.entities) \subseteq Present(After.entities)
        /\ \A slot \in Slots :
              slot \notin Present(last.extracted) =>
                  SlotOf(After.entities, slot) = SlotOf(Before.entities, slot)

\* a message that adds a slot to a session that holds another one
C4_Witness ==
    /\ Completed
    /\ "origin" \in Present(Before.entities)
    /\ "origin" \notin Present(last.extracted)
    /\ "mode" \in Present(last.extracted)
    /\ "mode" \notin Present(Before.entities)
    /\ {"origin", "mode"} \subseteq Present(After.entities)

TravelIntents == {INTENTS.TRAVEL_SEARCH, INTENTS.SCHEDULE_QUERY, INTENTS.PRICE_QUERY}
Located(entities) == {"origin", "destination"} \subseteq Present(entities)
\* the seeded routes of the trip the entities describe
Candidates(entities) ==
    {routeDefinitions[n].id : n \in
        {m \in 1..Len(routeDefinitions) :
            /\ Some(routeDefinitions[m].from) = entities.origin
            /\ Some(routeDefinitions[m].to) = entities.destination
            /\ ("mode" \in Present(entities) =>
                   Some(routeDefinitions[m].mode) = entities.mode)}}
\* the candidates of the entities, each once, scored, best score first
RankedResult(routes, entities) ==
    /\ {routes[n].id : n \in 1..Len(routes)} = Candidates(entities)
    /\ Len(routes) = Cardinality(Candidates(entities))
    /\ \A n \in 1..Len(routes) :
          routes[n]._score[2] > 0 /\ routes[n]._score[2] = routes[1]._score[2]
    /\ \A n \in 1..(Len(routes) - 1) : routes[n + 1]._score[1] <= routes[n]._score[1]
\* what the travel-query handler does, given the entities of the session
TravelHandled ==
    IF ~Located(After.entities)
    THEN /\ last.response # Null
         /\ After.state = "collecting_info"
         /\ last.lookups = 0
         /\ After.lastRoutes = Before.lastRoutes
    ELSE /\ After.state = "showing_results"
         /\ last.lookups = 1
         /\ last.response # Null =>
               /\ After.lastRoutes # Null
               /\ RankedResult(The(After.lastRoutes), After.entities)

\* C6: the travel-query handler, reached for travel_search, schedule_query and
\* price_query: with origin or destination missing it sets the phase to
\* collecting_info, makes no lookup and leaves lastRoutes unchanged; otherwise
\* it sets the phase to showing_results, makes exactly one lookup and stores
\* the scored, ranked result in lastRoutes, also when the result is empty.
C6_TravelQueryHandler ==
    (Processed /\ last.intent \in TravelIntents) => TravelHandled

\* an empty result replaced a list of routes
C6_Witness ==
    /\ Completed
    /\ last.intent \in TravelIntents
    /\ Before.lastRoutes # Null
    /\ Len(The(Before.lastRoutes)) > 1
    /\ last.lookups = 1
    /\ After.lastRoutes = Some(<<>>)

\* C7: after every processed message, goodbye included, the history of the
\* session ends with the user turn of the message followed by its assistant
\* turn.
C7_HistoryEndsWithExchange ==
    Completed =>
        /\ last.sessionId \in DOMAIN sessions
        /\ Len(After.history) >= 2
        /\ After.history[Len(After.history) - 1] = Turn("user", Text(last.message))
        /\ After.history[Len(After.history)] = Turn("assistant", The(last.response))

SelectCalled ==
    \/ Completed /\ last.intent = INTENTS.SELECT_ROUTE
    \/ last.op = "handleRouteSelection"
\* the entities a call leaves when its handler does not touch them
EntitiesAsMerged ==
    After.entities = IF Processed THEN mergeWithContext(last.extracted, Before.entities)
                     ELSE Before.entities

\* C8: select_route: with lastRoutes absent or empty the reply is the
\* nothing-to-select message; otherwise, k being the first integer literal of
\* the raw text and N the length of lastRoutes, the reply is the detail card of
\* lastRoutes[k-1] exactly when 1 <= k <= N, and the re-prompt with the range
\* 1..N when there is no integer, k = 0 or k > N.  Phase, lastRoutes and the
\* entities (beyond the merge) are unchanged.
C8_RouteSelection ==
    SelectCalled =>
        LET response == The(last.response)
            number == FirstNumber(last.message)
            k == The(parseInt(The(number)))
            N == Len(The(Before.lastRoutes))
        IN  /\ last.response # Null
            /\ IF Before.lastRoutes = Null \/ N = 0
               THEN response.tag = "nothing_to_select"
               ELSE IF number # Null /\ 1 <= k /\ k <= N
               THEN /\ response.tag = "selection_detail"
                    /\ response.routes = <<The(Before.lastRoutes)[k]>>
               ELSE /\ response.tag = "selection_prompt"
                    /\ response.n = N
            /\ After.state = Before.state
            /\ After.lastRoutes = Before.lastRoutes
            /\ EntitiesAsMerged
            /\ last.lookups = 0

\* "option 2" against a list of one route is answered with the re-prompt
C8_Witness ==
    /\ last.op = "handleRouteSelection"
    /\ last.message = "option 2"
    /\ Before.lastRoutes # Null
    /\ Len(The(Before.lastRoutes)) = 1
    /\ The(last.response).tag = "selection_prompt"
    /\ The(last.response).n = 1

CompareCalled ==
    \/ Processed /\ last.intent = INTENTS.COMPARE_ROUTES
    \/ last.op = "handleCompareRoutes"

\* C9: compare_routes: lastRoutes with two or more routes gives the comparison
\* table; with exactly one, the nothing-to-compare explanation; empty or absent
\* with origin and destination both present, the travel-query handler runs;
\* otherwise the reply asks to specify a trip, phase and lastRoutes unchanged.
C9_CompareOrder ==
    CompareCalled =>
        LET N == IF Before.lastRoutes = Null THEN 0 ELSE Len(The(Before.lastRoutes))
            response == The(last.response)
        IN  IF N >= 2
            THEN /\ last.response # Null
                 /\ response.tag = "comparison"
                 /\ response.routes = The(Before.lastRoutes)
                 /\ last.lookups = 0
            ELSE IF N = 1
            THEN /\ last.response # Null
                 /\ response.tag = "nothing_to_compare"
                 /\ last.lookups = 0
            ELSE IF Located(last.entities)
            THEN /\ TravelHandled
                 /\ last.response # Null => response.tag \in {"route_results", "no_results"}
            ELSE /\ last.response # Null
                 /\ response.tag = "no_routes_to_compare"
                 /\ After.state = Before.state
                 /\ After.lastRoutes = Before.lastRoutes
                 /\ last.lookups = 0

\* the comparison table of a list of several routes
C9_Witness ==
    /\ last.op = "handleCompareRoutes"
    /\ Before.lastRoutes # Null
    /\ Len(The(Before.lastRoutes)) >= 2
    /\ Located(last.entities)
    /\ The(last.response).tag = "comparison"

Canned == {INTENTS.GREETING, INTENTS.HELP, INTENTS.THANKS}

\* C10: greeting sets the phase to idle; help and thanks leave the phase
\* unchanged; none of the three changes lastRoutes or removes a stored entity.
C10_CannedIntents ==
    (Completed /\ last.intent \in Canned) =>
        /\ last.intent = INTENTS.GREETING => After.state = "idle"
        /\ last.intent \in {INTENTS.HELP, INTENTS.THANKS} => After.state = Before.state
        /\ After.lastRoutes = Before.lastRoutes
        /\ \A slot \in Present(Before.entities) :
              After.entities[slot] = Before.entities[slot]
        /\ The(last.response).tag = last.intent

\* help in the middle of a search keeps the results phase, the routes and the trip
C10_Witness ==
    /\ Completed
    /\ last.intent = INTENTS.HELP
    /\ Before.state = "showing_results"
    /\ After.state = "showing_results"
    /\ After.lastRoutes # Null
    /\ Located(After.entities)
\* the call made one route lookup, for a known trip, and it found no route
FoundNothing ==
    /\ last.lookups = 1
    /\ Located(last.entities)
    /\ SearchFor(last.entities) = <<>>

\* C18: when the lookup of a turn finds no route, scoreRoutes returns the empty
\* list, generateRecommendations returns no recommendation, and the turn
\* completes with the no-results response: the empty list is stored as
\* lastRoutes and the response is appended to the history.
C18_NoCandidates ==
    (Processed /\ FoundNothing /\ last.response # Null) =>
        /\ scoreRoutes(<<>>, last.entities) = <<>>
        /\ generateRecommendations(<<>>, last.entities) = <<>>
        /\ PlanResult(<<>>, last.entities).routes = <<>>
        /\ The(last.response).tag = "no_results"
        /\ The(last.response).routes = <<>>
        /\ After.lastRoutes = Some(<<>>)
        /\ After.state = "showing_results"
        /\ After.history[Len(After.history)] = Turn("assistant", The(last.response))

\* a turn that asks for a trip no route serves
C18_Witness ==
    /\ Processed /\ FoundNothing /\ last.response # Null
    /\ last.message = "from pune to mumbai"
    /\ The(last.response).tag = "no_results"
\* processMessage made a route lookup, the lookup threw, and so did the call
LookupFailed == Processed /\ last.lookups > 0 /\ last.response = Null

\* C20: when the route lookup of a travel query fails, processMessage fails
\* and the session is as it was before the call: the same entities, phase,
\* turnCount, history, lastIntent and lastRoutes.
C20_FailureCommitsNothing ==
    LookupFailed =>
        /\ After.entities = Before.entities
        /\ After.state = Before.state
        /\ After.turnCount = Before.turnCount
        /\ After.history = Before.history
        /\ After.lastIntent = Before.lastIntent
        /\ After.lastRoutes = Before.lastRoutes

\* what a failed lookup leaves behind: the entities of the message, the intent,
\* the user turn, the results phase and two more counted turns; no new routes
C20_FailureLeavesUserTurn ==
    LookupFailed =>
        /\ After.entities = Spread(Before.entities, last.entities)
        /\ After.lastIntent = Some(last.intent)
        /\ After.history = PushHistory(Before.history, Turn("user", Text(last.message)))
        /\ After.state = "showing_results"
        /\ After.turnCount = Before.turnCount + 2
        /\ After.lastRoutes = Before.lastRoutes

\* the first message of a session names a trip and its lookup throws
C20_FailedFirstTurn ==
    /\ LookupFailed
    /\ last.sessionId \notin DOMAIN last.before
    /\ After.state = "showing_results"
    /\ Len(After.history) = 1

\* the sessions other than the one of the call
Others == DOMAIN last.before \ {last.sessionId}

\* C22: a processMessage call on one session, whether it returns, fails in the
\* lookup or clears the session, leaves every other session as it was and
\* creates no session but its own.
C22_SessionsIsolated ==
    Processed =>
        /\ \A t \in Others : t \in DOMAIN sessions /\ sessions[t] = last.before[t]
        /\ DOMAIN sessions \subseteq DOMAIN last.before \cup {last.sessionId}

\* another session holds routes while the lookup of this session's call throws
C22_Witness ==
    /\ LookupFailed
    /\ \E t \in Others : sessions[t].lastRoutes # Null /\ Len(sessions[t].history) = 2

\* another session holds routes while this session says goodbye
C22_WitnessGoodbye ==
    /\ Completed /\ last.intent = INTENTS.GOODBYE
    /\ \E t \in Others : sessions[t].lastRoutes # Null /\ Len(sessions[t].history) = 2

\* C30: in every session, the phase showing_results implies that origin and
\* destination are both among the entities, and so does a lastRoutes that is
\* set, be it to the empty list.
C30_ResultsImplyTrip ==
    \A id \in DOMAIN sessions :
        /\ sessions[id].state = "showing_results" => Located(sessions[id].entities)
        /\ sessions[id].lastRoutes # Null => Located(sessions[id].entities)

\* a session in the results phase whose lookup found nothing, after a message
\* that named no place
C30_Witness ==
    /\ Completed
    /\ After.state = "showing_results"
    /\ After.lastRoutes = Some(<<>>)
    /\ Located(After.entities)
    /\ ~Truthy(last.extracted, "origin") /\ ~Truthy(last.extracted, "destination")
    /\ Len(After.history) = 4

\* the session of the call was stored before it, with an origin or a destination
StoredLocation ==
    /\ Processed
    /\ last.sessionId \in DOMAIN last.before
    /\ \/ Truthy(last.before[last.sessionId].entities, "origin")
       \/ Truthy(last.before[last.sessionId].entities, "destination")

\* C32: once the stored entities of a session have an origin or a destination,
\* no processMessage call of the session is dispatched as goodbye: the session
\* is still stored after the call and every slot it had is still set.
C32_LocationOutlivesGoodbye ==
    StoredLocation =>
        /\ last.intent # INTENTS.GOODBYE
        /\ last.sessionId \in DOMAIN sessions
        /\ Present(last.before[last.sessionId].entities) \subseteq Present(After.entities)
        /\ Truthy(After.entities, "origin") \/ Truthy(After.entities, "destination")

\* "bye" is sent to a session that has a stored location, and is answered as a
\* travel search
C32_Witness ==
    /\ StoredLocation
    /\ last.message = "bye"
    /\ last.intent = INTENTS.TRAVEL_SEARCH
    /\ Truthy(After.entities, "origin")

\* the session of the call had a non-empty list of routes before it
HadRoutes == Before.lastRoutes # Null /\ Len(The(Before.lastRoutes)) > 0

\* C33: processMessage dispatches compare_routes only while the session has no
\* routes and the merged entities lack an origin or a destination, so every
\* such turn is answered with the request to specify a trip first, without a
\* lookup; no processMessage call returns the comparison table or the
\* nothing-to-compare reply.
C33_CompareOnlyBeforeAnyTrip ==
    Processed =>
        /\ last.intent = INTENTS.COMPARE_ROUTES =>
              /\ ~HadRoutes
              /\ ~Truthy(last.entities, "origin") /\ ~Truthy(last.entities, "destination")
              /\ last.response = Some(Reply("no_routes_to_compare"))
              /\ last.lookups = 0
              /\ After.lastRoutes = Before.lastRoutes
        /\ last.response # Null =>
              The(last.response).tag \notin {"comparison", "nothing_to_compare"}

\* "compare" is sent to a session that has routes stored, and is dispatched as
\* a travel search
C33_Witness ==
    /\ Processed
    /\ last.message = "compare"
    /\ HadRoutes
    /\ last.intent = INTENTS.TRAVEL_SEARCH
    /\ last.response # Null
    /\ The(last.response).tag = "route_results"

\* "compare" is dispatched as compare_routes in a session without a location
C33_WitnessCompareTurn ==
    /\ Processed
    /\ last.intent = INTENTS.COMPARE_ROUTES
    /\ The(last.response).tag = "no_routes_to_compare"

\* the phases the service assigns
Phases == {"idle", "collecting_info", "showing_results"}

\* C35: the phase of every stored session is idle, collecting_info or
\* showing_results; no session is ever in the confirming phase.
C35_PhaseIsOneOfThree ==
    \A id \in DOMAIN sessions :
        /\ sessions[id].state \in Phases
        /\ sessions[id].state # "confirming"

\* a route of the results shown is selected and the session stays in the
\* results phase
C35_Witness ==
    /\ Completed
    /\ last.intent = INTENTS.SELECT_ROUTE
    /\ The(last.response).tag = "selection_detail"
    /\ Before.state = "showing_results"
    /\ After.state = "showing_results"

\* one session is collecting information while another shows results
C35_WitnessTwoPhases ==
    \E a, b \in DOMAIN sessions :
        sessions[a].state = "collecting_info" /\ sessions[b].state = "showing_results"

(***************************************************************************)
(* Properties of detectIntent, read from `probe`: the text and the entities *)
(* of the call and the result it returned.                                 *)
(***************************************************************************)
Classified == probe.result # Null
\* the number of patterns of the n-th declared intent that match the text
Hits(n) == CountMatches(INTENT_PATTERNS[n].patterns, trim(toLowerCase(probe.message)))
HasLocation == Truthy(probe.entities, "origin") \/ Truthy(probe.entities, "destination")
\* the score of the n-th declared intent at the comparison
ScoreAt(n) ==
    Hits(n) + (IF INTENT_PATTERNS[n].intent = INTENTS.TRAVEL_SEARCH /\ HasLocation
               THEN 2 ELSE 0)
Declared == 1..Len(INTENT_PATTERNS)
TopScore == Max({ScoreAt(n) : n \in Declared})
Matching == {n \in Declared : Hits(n) > 0}

\* C11: detectIntent returns the intent with the greatest score, the earliest
\* declared one among those that share it; without a location entity, the only
\* intent with a matching pattern is returned, and unknown when none matches.
C11_GreatestScoreEarliestWins ==
    Classified =>
        /\ TopScore > 0 =>
              The(probe.result).intent
                  = INTENT_PATTERNS[Min({n \in Declared : ScoreAt(n) = TopScore})].intent
        /\ (~HasLocation /\ Cardinality(Matching) = 1) =>
              The(probe.result).intent = INTENT_PATTERNS[The(Matching)].intent
        /\ (~HasLocation /\ Matching = {}) => The(probe.result).intent = INTENTS.UNKNOWN

\* two intents share the top score and the earlier declared one is returned
C11_Witness ==
    /\ Classified
    /\ TopScore > 0
    /\ Cardinality({n \in Declared : ScoreAt(n) = TopScore}) >= 2
    /\ The(probe.result).intent
           = INTENT_PATTERNS[Min({n \in Declared : ScoreAt(n) = TopScore})].intent

RatEq(a, b) == a[1] * b[2] = b[1] * a[2]
TravelSearchAt == CHOOSE n \in Declared : INTENT_PATTERNS[n].intent = INTENTS.TRAVEL_SEARCH
\* no other intent matches two or more patterns more than travel_search
LowSignal == \A n \in Declared \ {TravelSearchAt} : Hits(n) < Hits(TravelSearchAt) + 2

\* C12: with an origin or a destination among the entities, travel_search
\* enters the comparison with its pattern count plus 2, so on a low-signal
\* text it is the intent returned, with that score.
C12_LocationBoost ==
    (Classified /\ HasLocation /\ LowSignal) =>
        /\ The(probe.result).intent = INTENTS.TRAVEL_SEARCH
        /\ RatEq(The(probe.result).confidence,
                 RatMin(<<Hits(TravelSearchAt) + 2, 3>>, <<1, 1>>))

\* another intent matches more patterns than travel_search and the boost decides
C12_Witness ==
    /\ Classified /\ HasLocation /\ LowSignal
    /\ \E n \in Declared : Hits(n) > Hits(TravelSearchAt)
    /\ The(probe.result).intent = INTENTS.TRAVEL_SEARCH

\* C13: the confidence is min(winning score / 3, 1), lies in [0, 1], and is 0
\* exactly when the intent returned is unknown.
C13_Confidence ==
    Classified =>
        /\ RatEq(The(probe.result).confidence, RatMin(<<TopScore, 3>>, <<1, 1>>))
        /\ RatLeq(<<0, 1>>, The(probe.result).confidence)
        /\ RatLeq(The(probe.result).confidence, <<1, 1>>)
        /\ RatEq(The(probe.result).confidence, <<0, 1>>)
               <=> The(probe.result).intent = INTENTS.UNKNOWN

\* a winning score above 3 is capped at 1
C13_Witness ==
    /\ Classified
    /\ TopScore > 3
    /\ RatEq(The(probe.result).confidence, <<1, 1>>)

\* the intents declared with a single pattern
SinglePatternIntents ==
    {INTENT_PATTERNS[n].intent : n \in {m \in Declared : Len(INTENT_PATTERNS[m].patterns) = 1}}
\* the best score and intent after the scan of detectIntent, before the forced default
ScanResult ==
    BestIntent(IntentScores(probe.message, probe.entities), 1,
               [maxScore |-> 0, bestIntent |-> INTENTS.UNKNOWN])

\* C31: with an origin or a destination among the entities, the intent returned
\* is neither unknown nor an intent declared with a single pattern (goodbye,
\* thanks, price_query, schedule_query, compare_routes, route_preference);
\* an intent other than travel_search is returned only if it matches at least
\* two patterns more than travel_search; the confidence is at least 2/3; and
\* the scan never ends with a score <= 0, so the forced default is not taken.
C31_LocationExcludesSinglePatternIntents ==
    (Classified /\ HasLocation) =>
        /\ The(probe.result).intent \notin {INTENTS.UNKNOWN} \cup SinglePatternIntents
        /\ SinglePatternIntents
               = {INTENTS.GOODBYE, INTENTS.THANKS, INTENTS.PRICE_QUERY,
                  INTENTS.SCHEDULE_QUERY, INTENTS.COMPARE_ROUTES, INTENTS.ROUTE_PREFERENCE}
        /\ The(probe.result).intent # INTENTS.TRAVEL_SEARCH =>
              \E n \in Declared :
                  /\ INTENT_PATTERNS[n].intent = The(probe.result).intent
                  /\ Hits(n) >= Hits(TravelSearchAt) + 2
        /\ RatLeq(<<2, 3>>, The(probe.result).confidence)
        /\ ScanResult.maxScore > 0

\* a text that matches the goodbye pattern and no travel_search pattern is
\* classified with a location and comes back as travel_search
C31_Witness ==
    /\ Classified /\ HasLocation
    /\ \E n \in Declared : INTENT_PATTERNS[n].intent = INTENTS.GOODBYE /\ Hits(n) = 1
    /\ Hits(TravelSearchAt) = 0
    /\ The(probe.result).intent = INTENTS.TRAVEL_SEARCH
    /\ RatEq(The(probe.result).confidence, <<2, 3>>)

\* an intent with two matching patterns is returned although a location is known
C31_WitnessTwoPatterns ==
    /\ Classified /\ HasLocation
    /\ The(probe.result).intent \in {INTENTS.HELP, INTENTS.SELECT_ROUTE}

(***************************************************************************)
(* Properties of the planner, read from `probe`: the candidate list the    *)
(* lookup returned, the entities, and the scored list, the ranked list and *)
(* the recommendations computed from them.                                 *)
(***************************************************************************)
Planned == probe.result # Null
Scored == The(probe.result).scored
Ranked == The(probe.result).routes
Recommended == The(probe.result).recommendations
PositionsOf(routes) == 1..Len(routes)

\* C14: for a non-empty candidate list, every score computed by scoreRoutes
\* lies in [0, 1], under each of the three weight profiles.
C14_ScoreInUnitInterval ==
    (Planned /\ Len(probe.found) > 0) =>
        /\ Len(Scored) = Len(probe.found)
        /\ \A n \in PositionsOf(Scored) :
              /\ Scored[n]._score[2] > 0
              /\ 0 <= Scored[n]._score[1]
              /\ Scored[n]._score[1] <= Scored[n]._score[2]

\* the best price and the best duration, more than 5 departures, and the
\* profile that weighs the operator most: the highest score of the set
C14_Witness ==
    /\ Planned /\ Len(probe.found) = MaxRoutes
    /\ Truthy(probe.entities, "budgetPreference")
    /\ \E n \in PositionsOf(Scored) :
          /\ Len(Scored[n].schedules) > 5
          /\ "cheapest" \in {Scored[n]._tags[k] : k \in PositionsOf(Scored[n]._tags)}
          /\ "fastest" \in {Scored[n]._tags[k] : k \in PositionsOf(Scored[n]._tags)}
          /\ Scored[n]._score[1] > 0

\* the budgetPreference of the entities, "" when absent
PreferenceAsked ==
    IF Truthy(probe.entities, "budgetPreference") THEN The(probe.entities.budgetPreference)
    ELSE ""
\* a weight of the profile in use, as a rational: ScoreWeights counts twentieths
WeightOf(factor) == <<ScoreWeights(probe.entities)[factor], 20>>
Factors == {"price", "duration", "schedule", "operator"}
\* the profiles as the specification lists them, in hundredths
ProfileOf(preference) ==
    CASE preference = "budget" -> [price |-> 50, duration |-> 25, schedule |-> 15, operator |-> 10]
      [] preference = "premium" -> [price |-> 10, duration |-> 30, schedule |-> 20, operator |-> 40]
      [] OTHER -> [price |-> 30, duration |-> 30, schedule |-> 20, operator |-> 20]

\* C36: the weights depend on budgetPreference alone: budget gives .5, .25,
\* .15, .1 for price, duration, schedule and operator, premium gives .1, .3,
\* .2, .4, and balanced or none gives .3, .3, .2, .2; every weight is
\* non-negative and the four sum to 1.  The score of the only route of a
\* list, whose price and duration factors are 1, is the sum weighted so.
C36_WeightProfiles ==
    Planned =>
        /\ \A factor \in Factors :
              /\ RatEq(WeightOf(factor), <<ProfileOf(PreferenceAsked)[factor], 100>>)
              /\ RatLeq(<<0, 1>>, WeightOf(factor))
        /\ WeightOf("price")[1] + WeightOf("duration")[1] + WeightOf("schedule")[1]
               + WeightOf("operator")[1] = 20
        /\ Len(probe.found) = 1 =>
              RatEq(Scored[1]._score,
                    <<ProfileOf(PreferenceAsked).price * 100
                          + ProfileOf(PreferenceAsked).duration * 100
                          + ProfileOf(PreferenceAsked).schedule
                                * ScheduleScore(Len(probe.found[1].schedules)) * 20
                          + ProfileOf(PreferenceAsked).operator
                                * getOperatorScore(probe.found[1].operator) * 5,
                      10000>>)

\* the premium profile is chosen although the entities carry a time of day too
C36_Witness ==
    /\ Planned /\ Len(probe.found) = 1
    /\ PreferenceAsked = "premium"
    /\ Truthy(probe.entities, "timePreference")
    /\ RatEq(WeightOf("operator"), <<4, 10>>)
    /\ Scored[1]._score[1] > 0

\* an explicit balanced preference and no preference give the same profile
C36_WitnessBalanced ==
    /\ Planned
    /\ PreferenceAsked = "balanced"
    /\ ScoreWeights(probe.entities) = ScoreWeights(EmptyObject)

TagsOf(route) == {route._tags[k] : k \in PositionsOf(route._tags)}
FoundPrices == {probe.found[n].base_price : n \in PositionsOf(probe.found)}
FoundDurations == {probe.found[n].duration_minutes : n \in PositionsOf(probe.found)}
Lowest(numbers) == CHOOSE low \in numbers : \A other \in numbers : low <= other

\* C15: a scored route is tagged cheapest exactly when its price is the
\* lowest of the candidate list, fastest exactly when its duration is the
\* lowest, and frequent exactly when it has at least 4 departures; so every
\* non-empty list has a cheapest and a fastest route.
C15_Tags ==
    (Planned /\ Len(probe.found) > 0) =>
        /\ \A n \in PositionsOf(Scored) :
              /\ Scored[n].id = probe.found[n].id
              /\ "cheapest" \in TagsOf(Scored[n])
                    <=> probe.found[n].base_price = Lowest(FoundPrices)
              /\ "fastest" \in TagsOf(Scored[n])
                    <=> probe.found[n].duration_minutes = Lowest(FoundDurations)
              /\ "frequent" \in TagsOf(Scored[n])
                    <=> Len(probe.found[n].schedules) >= 4
              /\ TagsOf(Scored[n]) \subseteq {"cheapest", "fastest", "frequent"}
        /\ \E n \in PositionsOf(Scored) : "cheapest" \in TagsOf(Scored[n])
        /\ \E n \in PositionsOf(Scored) : "fastest" \in TagsOf(Scored[n])

\* two routes share the lowest price and a dearer one has none of it; one
\* route has exactly 4 departures and another only 3
C15_Witness ==
    /\ Planned /\ Len(probe.found) = MaxRoutes
    /\ \E a, b, c \in PositionsOf(Scored) :
          /\ a # b
          /\ "cheapest" \in TagsOf(Scored[a]) /\ "cheapest" \in TagsOf(Scored[b])
          /\ "cheapest" \notin TagsOf(Scored[c])
          /\ Len(Scored[a].schedules) = 4 /\ "frequent" \in TagsOf(Scored[a])
          /\ Len(Scored[c].schedules) = 3 /\ "frequent" \notin TagsOf(Scored[c])
          /\ "fastest" \notin TagsOf(Scored[b])

\* the position in the scored list, which is in lookup order, of a ranked route
LookupPosition(route) == CHOOSE n \in PositionsOf(Scored) : Scored[n].id = route.id

RecommendedOf(type) ==
    {Recommended[k].routeId : k \in {k \in PositionsOf(Recommended) : Recommended[k].type = type}}
CalloutCount(type) ==
    Cardinality({k \in PositionsOf(Recommended) : Recommended[k].type = type})
RankedPrices == {Ranked[n].base_price : n \in PositionsOf(Ranked)}
RankedDurations == {Ranked[n].duration_minutes : n \in PositionsOf(Ranked)}

\* C17: for a non-empty ranked list there are a route of lowest price (the
\* cheapest route) and a route of lowest duration (the fastest route) such that
\* the recommendations hold one cheapest callout and one fastest callout naming
\* them exactly when their ids differ, and one best-value callout naming the
\* top-scored route exactly when its id is the id of neither.
C17_Recommendations ==
    (Planned /\ Len(Ranked) > 0) =>
        \E c, f \in PositionsOf(Ranked) :
            /\ Ranked[c].base_price = Lowest(RankedPrices)
            /\ Ranked[f].duration_minutes = Lowest(RankedDurations)
            /\ IF Ranked[c].id # Ranked[f].id
               THEN /\ CalloutCount("cheapest") = 1 /\ CalloutCount("fastest") = 1
                    /\ RecommendedOf("cheapest") = {Some(Ranked[c].id)}
                    /\ RecommendedOf("fastest") = {Some(Ranked[f].id)}
               ELSE CalloutCount("cheapest") = 0 /\ CalloutCount("fastest") = 0
            /\ IF Ranked[1].id # Ranked[c].id /\ Ranked[1].id # Ranked[f].id
               THEN /\ CalloutCount("best_value") = 1
                    /\ RecommendedOf("best_value") = {Some(Ranked[1].id)}
               ELSE CalloutCount("best_value") = 0

\* three callouts naming three different routes: the top-scored route is
\* neither the only cheapest route nor the only fastest one
C17_Witness ==
    /\ Planned /\ Len(Ranked) = MaxRoutes
    /\ CalloutCount("cheapest") = 1 /\ CalloutCount("fastest") = 1
    /\ CalloutCount("best_value") = 1
    /\ Cardinality(RecommendedOf("cheapest") \cup RecommendedOf("fastest")
                   \cup RecommendedOf("best_value")) = 3
    /\ Ranked[1].base_price > Lowest(RankedPrices)
    /\ Ranked[1].duration_minutes > Lowest(RankedDurations)

\* one route is the cheapest and the fastest and is ranked first: no callout
C17_WitnessNone ==
    /\ Planned /\ Len(Ranked) = MaxRoutes
    /\ CalloutCount("cheapest") = 0 /\ CalloutCount("fastest") = 0
    /\ CalloutCount("best_value") = 0

(***************************************************************************)
(* Properties of the entry paths, read from `last`: the request, the maps  *)
(* of the two services before it, whether processMessage was called.       *)
(***************************************************************************)
Requested == last.op \in EntryPaths
Invalid == BlankMessage(last.message) \/ last.sessionId = Null

\* C19: on both entry paths, a request whose message is absent, empty or only
\* white space, or whose session id is absent, is rejected: processMessage is
\* not called and the sessions of both services are what they were.
C19_InvalidRequestRejected ==
    (Requested /\ Invalid) => (~last.called /\ sessions = last.before)

\* the same for the REST path alone
C19_RestRejectsInvalid ==
    (last.op = "POST /chat/message" /\ Invalid) => (~last.called /\ sessions = last.before)

\* a chat:message without a session id was processed and left a session
\* under the key undefined
C19_SocketProcessedWithoutSessionId ==
    /\ last.op = "chat:message"
    /\ last.sessionId = Null
    /\ last.called
    /\ UndefinedKey \in DOMAIN sessions.socket
    /\ UndefinedKey \notin DOMAIN last.before.socket

(***************************************************************************)
(* Properties of the durable append, read from `last` and from `probe`:    *)
(* the store before and after the call, the outcome the environment chose  *)
(* for each append, and the appends that were attempted.                   *)
(***************************************************************************)
\* the same call with no append in the way
Undisturbed == processMessage(last.before, last.sessionId, last.message, probe.lookupOk)
\* the session has its row when the n-th append of the call starts
HasRow(n) ==
    \/ last.sessionId \in probe.before.sessions
    \/ n = 2 /\ probe.outcomes[1] \in {"ok", "insert message throws"}
AppendFailed(n) ==
    \/ probe.outcomes[n] \in {"queryOne throws", "insert message throws"}
    \/ probe.outcomes[n] = "insert session throws" /\ ~HasRow(n)

\* C21: whichever append fails, a processMessage call that computed a response
\* returns it: the response, the metadata and the sessions map are those of
\* the call without the failure, both appends are attempted, and the store
\* gains exactly the rows of the appends that did not fail.
C21_AppendFailureIsCaught ==
    (Processed /\ Undisturbed.response # Null) =>
        /\ last.response = Undisturbed.response
        /\ last.intent = Undisturbed.intent
        /\ last.entities = Undisturbed.entities
        /\ sessions = Undisturbed.sessions
        /\ probe.attempted = <<"user", "assistant">>
        /\ probe.store.messages =
              probe.before.messages
              \o (IF AppendFailed(1) THEN <<>>
                  ELSE <<[session_id |-> last.sessionId, role |-> "user",
                          content |-> Text(last.message)]>>)
              \o (IF AppendFailed(2) THEN <<>>
                  ELSE <<[session_id |-> last.sessionId, role |-> "assistant",
                          content |-> The(last.response)]>>)

\* the append of the user turn fails, the append of the assistant turn is made
\* all the same and the response is returned
C21_Witness ==
    /\ Processed /\ last.response # Null
    /\ AppendFailed(1) /\ ~AppendFailed(2)
    /\ Len(probe.store.messages) = Len(probe.before.messages) + 1
    /\ probe.store.messages[Len(probe.store.messages)].role = "assistant"

(***************************************************************************)
(* Properties of the ConversationContext, read from `last` (the method,    *)
(* the session id, the map before the call) and from `probe` (the updates  *)
(* and the value returned).                                                *)
(***************************************************************************)
Updated == last.op = "updateContext" /\ probe.returned # Null
Supplied(key) == Truthy(probe.updates, key)

\* C23: an updateContext call adds exactly 1 to the turnCount of the session;
\* it merges the supplied entities key by key into the stored ones, stores the
\* supplied lastIntent, phase and lastRoutes, appends the supplied message,
\* and leaves every field that is not supplied, and every other session, as
\* it was.
C23_UpdateChangesWhatIsSupplied ==
    Updated =>
        /\ After = The(probe.returned)
        /\ After.turnCount = Before.turnCount + 1
        /\ After.entities =
              (IF Supplied("entities")
               THEN [key \in DOMAIN Before.entities \cup DOMAIN The(probe.updates.entities) |->
                        IF key \in DOMAIN The(probe.updates.entities)
                        THEN The(probe.updates.entities)[key] ELSE Before.entities[key]]
               ELSE Before.entities)
        /\ After.lastIntent =
              (IF Supplied("lastIntent") THEN probe.updates.lastIntent ELSE Before.lastIntent)
        /\ After.state = (IF Supplied("state") THEN The(probe.updates.state) ELSE Before.state)
        /\ After.lastRoutes =
              (IF Supplied("lastRoutes") THEN probe.updates.lastRoutes ELSE Before.lastRoutes)
        /\ After.history =
              (IF Supplied("message") THEN Append(Before.history, The(probe.updates.message))
               ELSE Before.history)
        /\ \A t \in Others : sessions[t] = last.before[t]

\* entities are supplied to a session that holds other entities, a phase and
\* routes: the new keys join the old ones and the rest stays
C23_Witness ==
    /\ Updated
    /\ Supplied("entities") /\ ~Supplied("state") /\ ~Supplied("lastRoutes")
    /\ Before.turnCount = 2 /\ After.turnCount = 3
    /\ DOMAIN Before.entities # {}
    /\ DOMAIN Before.entities \ DOMAIN The(probe.updates.entities) # {}
    /\ DOMAIN The(probe.updates.entities) \ DOMAIN Before.entities # {}
    /\ Before.state # "idle" \/ Before.lastRoutes # Null

FirstReference == last.sessionId \notin DOMAIN last.before
InitialState(ctx) ==
    /\ ctx.entities = EmptyObject /\ DOMAIN ctx.entities = {}
    /\ ctx.lastIntent = Null
    /\ ctx.turnCount = 0
    /\ ctx.history = <<>>
    /\ ctx.lastRoutes = Null
    /\ ctx.state = "idle"

\* C24: a reference to a session id that has no session, be it the first
\* reference or the first one after clearContext, creates the session in the
\* initial state (no entities, no lastIntent, turnCount 0, empty history, no
\* lastRoutes, phase idle); clearContext leaves no session under the id; a
\* session that exists is returned as it is.
C24_CreatedInInitialState ==
    /\ (last.op \in {"getContext", "getMissingEntities"} /\ FirstReference)
          => (last.sessionId \in DOMAIN sessions /\ InitialState(After))
    /\ (last.op = "getContext" /\ FirstReference) => InitialState(The(probe.returned))
    /\ (last.op = "updateContext" /\ FirstReference)
          => (After.turnCount = 1 /\ Len(After.history) <= 1
              /\ (~Supplied("entities") => DOMAIN After.entities = {}))
    /\ (last.op = "getContext" /\ ~FirstReference)
          => (sessions = last.before /\ The(probe.returned) = last.before[last.sessionId])
    /\ last.op = "clearContext" => last.sessionId \notin DOMAIN sessions

\* a session that held entities is cleared, and the next getContext of its id
\* returns the initial state
C24_Witness ==
    /\ last.op = "getContext"
    /\ last.sessionId \in probe.cleared
    /\ FirstReference
    /\ InitialState(The(probe.returned))
    /\ sent = MaxContextCalls

AskedMissing == last.op = "getMissingEntities" /\ probe.returned # Null
Missing == The(probe.returned)
Lacks(slot) == slot \notin DOMAIN Before.entities \/ Before.entities[slot] = Null

\* C25: getMissingEntities returns the required slots that the entities of the
\* session lack, origin before destination: both for a session without
\* entities, and none exactly when origin and destination are both present.
C25_MissingSlots ==
    AskedMissing =>
        /\ Missing \in {<<>>, <<"origin">>, <<"destination">>, <<"origin", "destination">>}
        /\ \A slot \in {"origin", "destination"} :
              (\E n \in 1..Len(Missing) : Missing[n] = slot) <=> Lacks(slot)
        /\ DOMAIN Before.entities = {} => Missing = <<"origin", "destination">>
        /\ Missing = <<>> <=> Located(Before.entities)

\* the session has its origin and a mode but no destination
C25_Witness ==
    /\ AskedMissing
    /\ Missing = <<"destination">>
    /\ Truthy(Before.entities, "origin")
    /\ DOMAIN Before.entities # {"origin"}

\* the session has both ends of the trip and nothing is missing
C25_WitnessNone ==
    AskedMissing /\ Missing = <<>> /\ Located(Before.entities)

(***************************************************************************)
(* Properties of resolveCity, read from `probe`.                           *)
(***************************************************************************)
\* C26: a phrase that resolveCity resolves, resolves to a canonical city, and
\* resolveCity of that city is the city itself; every key of the alias table
\* resolves to the city the table gives it.
C26_ResolveCityIdempotent ==
    /\ (probe.calls >= 1 /\ probe.city # Null) => The(probe.city) \in CanonicalCities
    /\ probe.calls = 2 => probe.again = probe.city
    /\ (probe.calls >= 1 /\ probe.phrase \in AliasKeys) =>
          \E n \in 1..Len(CITY_ALIASES) :
              CITY_ALIASES[n] = <<probe.phrase, The(probe.city)>>

\* an alias that is not the name of its city, resolved twice
C26_Witness ==
    /\ probe.calls = 2
    /\ probe.phrase = "bombay"
    /\ probe.city = Some("Mumbai")
    /\ probe.again = Some("Mumbai")

(***************************************************************************)
(* Properties of formatDuration, read from `probe`.                        *)
(***************************************************************************)
Formatted == probe.text # Null
\* the string the description gives for m minutes
Described(m) ==
    IF m < 60 THEN ToString(m % 60) \o "min"
    ELSE IF m % 60 = 0 THEN ToString(m \div 60) \o "h"
    ELSE ToString(m \div 60) \o "h " \o ToString(m % 60) \o "min"
\* the minutes read back from a string: the number before "h" times 60 plus
\* the number before "min"
ReadBack(text) ==
    LET hAt == {i \in 1..Len(text) : CharAt(text, i) = "h"}
        hours == IF hAt = {} THEN 0 ELSE DigitsValue(text, 0)
        rest == IF hAt = {} THEN text ELSE trim(SubSeq(text, Min(hAt) + 1, Len(text)))
    IN  60 * hours + DigitsValue(rest, 0)

\* C27: formatDuration(m) is "<m mod 60>min" below one hour, "<m div 60>h" for
\* whole hours and "<m div 60>h <m mod 60>min" otherwise; m is read back from
\* the string, and 195, 60, 45 and 0 minutes give "3h 15min", "1h", "45min"
\* and "0min".
C27_FormatDuration ==
    Formatted =>
        /\ The(probe.text) = Described(probe.minutes)
        /\ ReadBack(The(probe.text)) = probe.minutes
        /\ probe.minutes = 195 => probe.text = Some("3h 15min")
        /\ probe.minutes = 60 => probe.text = Some("1h")
        /\ probe.minutes = 45 => probe.text = Some("45min")
        /\ probe.minutes = 0 => probe.text = Some("0min")

\* hours and minutes, both written
C27_Witness ==
    Formatted /\ probe.minutes = 195 /\ probe.text = Some("3h 15min")

\* whole hours
C27_WitnessWholeHours ==
    Formatted /\ probe.minutes = 120 /\ probe.text = Some("2h")

(***************************************************************************)
(* Properties of the calls in flight, read from `probe`.                   *)
(***************************************************************************)
AllSettled ==
    /\ Len(probe.calls) = MaxCalls
    /\ \A k \in 1..MaxCalls : probe.calls[k].pc \in {"returned", "threw"}
\* the sessions map after the calls made one after the other in some order
RECURSIVE RunSerially(_, _)
RunSerially(order, served) ==
    IF order = <<>> THEN served
    ELSE RunSerially(Tail(order),
                     processMessage(served, "s1", probe.calls[Head(order)].message,
                                    probe.calls[Head(order)].lookupOk).sessions)
AsStarted == [k \in 1..Len(probe.calls) |-> k]
Orders ==
    {order \in [1..Len(probe.calls) -> 1..Len(probe.calls)] :
        \A a, b \in 1..Len(probe.calls) : order[a] = order[b] => a = b}
IsSerial == \E order \in Orders : sessions = RunSerially(order, NoSessions)
RolesOf(history) == [n \in 1..Len(history) |-> history[n].role]

\* C28: two processMessage calls on one session that do not overlap leave the
\* state of the serial order in which they were made; a final state that no
\* serial order produces comes only from calls that overlapped at an await
\* (and such a state is reachable: the witness).
C28_OnlyOverlapLosesUpdates ==
    /\ ((\A k \in 1..Len(probe.calls) : probe.calls[k].pc \in {"returned", "threw"})
        /\ ~probe.overlapped) => sessions = RunSerially(AsStarted, NoSessions)
    /\ (AllSettled /\ ~IsSerial) => probe.overlapped

\* both calls returned, the second began while the first awaited its lookup,
\* and the history has the two user turns before the two assistant turns: no
\* serial order of the two calls leaves this state
C28_Witness ==
    /\ AllSettled
    /\ probe.overlapped
    /\ ~IsSerial
    /\ probe.calls[1].pc = "returned" /\ probe.calls[2].pc = "returned"
    /\ probe.calls[1].routes # <<>>
    /\ "s1" \in DOMAIN sessions
    /\ RolesOf(sessions["s1"].history) = <<"user", "user", "assistant", "assistant">>

\* with the lookup synchronous, the continuations that store the routes run in
\* the order the calls began, so the routes stored last are those of the call
\* that wrote the entities last
C28_RoutesFollowLastCall ==
    (AllSettled /\ "s1" \in DOMAIN sessions
     /\ \A k \in 1..MaxCalls : probe.calls[k].pc = "returned" /\ probe.calls[k].routes # <<>>)
        => /\ sessions["s1"].lastRoutes = Some(probe.calls[MaxCalls].routes)
           /\ sessions["s1"].entities = probe.calls[MaxCalls].entities

(***************************************************************************)
(* Properties of the chat:message handler, read from `probe`.              *)
(***************************************************************************)
\* C29: processMessage is invoked for the messages of a session in the order
\* in which the handler received them.
C29_InvokedInOrderReceived ==
    \A a, b \in 1..Len(probe.invoked) : a < b => probe.invoked[a] < probe.invoked[b]

\* the message received second is processed first, and its turns come first
\* in the history of the session
C29_SecondProcessedFirst ==
    /\ Len(probe.invoked) = 2
    /\ probe.invoked = <<2, 1>>
    /\ "s1" \in DOMAIN sessions
    /\ Len(sessions["s1"].history) = 4
    /\ sessions["s1"].history[1].content = Text(trim(The(probe.received[2])))
    /\ sessions["s1"].history[3].content = Text(trim(The(probe.received[1])))
    /\ probe.received[1] # probe.received[2]
(***************************************************************************)
(* Properties of extractLocations, read from `probe`: the text, the        *)
(* locations found in it and the entities returned for it.                 *)
(***************************************************************************)
LocationsFound == probe.locations # Null
LocateText == trim(toLowerCase(probe.message))
\* the surface patterns in the order extractLocations tries them
PatternOrder == <<"fromTo", "xToY", "toFrom", "goTo", "from">>
\* the match of the named pattern on the text, Null when it does not match
MatchOf(name) ==
    IF name \in DOMAIN TwoGroupPatterns
    THEN MatchTwoGroups(LocateText, TwoGroupPatterns[name][1], TwoGroupPatterns[name][2],
                        TwoGroupPatterns[name][3])
    ELSE MatchOneGroup(LocateText, OneGroupPatterns[name][1], OneGroupPatterns[name][2])
MatchingPatterns == {n \in 1..Len(PatternOrder) : MatchOf(PatternOrder[n]) # Null}
\* the origin and the destination that the named pattern gives on its own
AloneOf(name) ==
    LET match == MatchOf(name)
    IN  CASE name \in {"fromTo", "xToY"} ->
               [origin |-> CityOfGroup(match, 1), destination |-> CityOfGroup(match, 2)]
          [] name = "toFrom" ->
               [origin |-> CityOfGroup(match, 2), destination |-> CityOfGroup(match, 1)]
          [] name = "goTo" -> [origin |-> Null, destination |-> CityOfGroup(match, 1)]
          [] name = "from" -> [origin |-> CityOfGroup(match, 1), destination |-> Null]
FoundLocations ==
    [origin |-> SlotOf(The(probe.locations), "origin"),
     destination |-> SlotOf(The(probe.locations), "destination")]

\* C34: the origin and the destination found in a text are those of the first
\* pattern, in the order from A to B; A to B; to B from A; go to B; from A,
\* that matches the text, whether or not its phrases resolve to a city; no
\* later pattern contributes.
C34_FirstMatchingPatternWins ==
    LocationsFound =>
        IF MatchingPatterns = {} THEN FoundLocations = [origin |-> Null, destination |-> Null]
        ELSE FoundLocations = AloneOf(PatternOrder[Min(MatchingPatterns)])

\* "from A to B" does win when it matches, also with a phrase that names no city
C34_FromToWins ==
    (LocationsFound /\ MatchOf("fromTo") # Null) => FoundLocations = AloneOf("fromTo")

\* "A to B" matches with a phrase that names no city and a later pattern
\* supplies the origin
C34_LaterPatternAfterUnresolved ==
    /\ LocationsFound
    /\ MatchingPatterns # {} /\ Min(MatchingPatterns) = 2
    /\ AloneOf("xToY").origin = Null
    /\ FoundLocations.origin # Null

\* "go to B" and "from A" both contribute to one result
C34_GoToAndFromCombine ==
    /\ LocationsFound
    /\ MatchingPatterns # {} /\ Min(MatchingPatterns) = 4
    /\ FoundLocations = [origin |-> AloneOf("from").origin,
                         destination |-> AloneOf("goTo").destination]
    /\ FoundLocations.origin # Null /\ FoundLocations.destination # Null

(***************************************************************************)
(* Properties of the scores of two candidates, read from `probe`.          *)
(***************************************************************************)
\* the candidate at position a is strictly cheaper and strictly faster than
\* the one at position b
Dominates(a, b) ==
    /\ probe.found[a].base_price < probe.found[b].base_price
    /\ probe.found[a].duration_minutes < probe.found[b].duration_minutes
\* the scores of one candidate set share their denominator
ScoresLess(a, b) == a[2] = b[2] /\ a[2] > 0 /\ a[1] < b[1]

\* C37: of two candidates, under balanced weights, the one that is strictly
\* cheaper and strictly faster scores strictly higher, whatever the operators
\* and the numbers of departures of the two, and is ranked first.
C37_CheaperAndFasterScoresHigher ==
    (Planned /\ Len(probe.found) = 2 /\ PreferenceAsked \in {"", "balanced"}) =>
        \A a, b \in 1..2 :
            Dominates(a, b) =>
                /\ ScoresLess(Scored[b]._score, Scored[a]._score)
                /\ Ranked[1].id = probe.found[a].id

\* the cheaper and faster route has no departure and an operator without a
\* known reputation, the other has more than 5 departures and the best
\* operator, and the first still scores higher
C37_Witness ==
    /\ Planned /\ Len(probe.found) = 2 /\ PreferenceAsked = ""
    /\ Dominates(2, 1)
    /\ Len(probe.found[2].schedules) = 0
    /\ getOperatorScore(probe.found[2].operator) = 10
    /\ Len(probe.found[1].schedules) > 5
    /\ getOperatorScore(probe.found[1].operator) = 17
    /\ ScoresLess(Scored[1]._score, Scored[2]._score)
    /\ Ranked[1].id = probe.found[2].id

(***************************************************************************)
(* Properties of filterByTime, read from `probe`: the departures, the time *)
(* preference and the departures kept.                                     *)
(***************************************************************************)
Filtered == probe.kept # Null
IntervalStart == MinutesOfDay(probe.timePreference.start)
IntervalEnd == MinutesOfDay(The(probe.timePreference.end))
\* the clock time lies in [start, end), an interval that wraps past midnight
\* when start > end
InHalfOpenInterval(time) ==
    IF IntervalStart <= IntervalEnd
    THEN IntervalStart <= MinutesOfDay(time) /\ MinutesOfDay(time) < IntervalEnd
    ELSE IntervalStart <= MinutesOfDay(time) \/ MinutesOfDay(time) < IntervalEnd
KeptTimes == {The(probe.kept)[n].departure_time : n \in 1..Len(The(probe.kept))}
GivenTimes == {probe.schedules[n].departure_time : n \in 1..Len(probe.schedules)}

\* C38: filterByTime keeps exactly the departures d with start <= d < end of
\* the keyword interval, wrapping past midnight when start > end; a departure
\* at or after the end time is not kept.
C38_KeepsHalfOpenInterval ==
    Filtered => KeptTimes = {time \in GivenTimes : InHalfOpenInterval(time)}

\* what filterByTime does keep: the departures whose hour lies between the
\* start hour and the end hour, both included
C38_KeepsWholeEndHour ==
    Filtered =>
        KeptTimes
            = {time \in GivenTimes :
                  IF probe.timePreference.start[1] <= The(probe.timePreference.end)[1]
                  THEN /\ probe.timePreference.start[1] <= time[1]
                       /\ time[1] <= The(probe.timePreference.end)[1]
                  ELSE \/ probe.timePreference.start[1] <= time[1]
                       \/ time[1] <= The(probe.timePreference.end)[1]}

\* the 12:30 departure is kept for morning, 06:00 to 12:00
C38_KeptAfterEnd ==
    /\ Filtered
    /\ probe.timePreference.label = "morning"
    /\ <<12, 30>> \in KeptTimes

(***************************************************************************)
(* Properties of the session state across the two entry paths, read from   *)
(* `last` (the request and both maps before it) and `sessions`.            *)
(***************************************************************************)
\* the map of the service that handled the last request
ServingMap == IF last.op = "POST /chat/message" THEN sessions.rest ELSE sessions.socket
ServicePaths == {"rest", "socket"}
PathOfLast == IF last.op = "POST /chat/message" THEN "rest" ELSE "socket"
\* the last request was processed for a session id, which had state in the
\* map of the path before it
HadStateOn(path) ==
    /\ last.called
    /\ last.sessionId # Null
    /\ The(last.sessionId) \in DOMAIN last.before[path]
\* the state the session had on the path is what the handling service worked on
SeenFrom(path) ==
    LET id == The(last.sessionId)
    IN  /\ id \in DOMAIN ServingMap
        /\ Present(last.before[path][id].entities) \subseteq Present(ServingMap[id].entities)
        /\ last.before[path][id].lastRoutes # Null => ServingMap[id].lastRoutes # Null

\* C39: the entities and the routes that earlier messages of a session left
\* are seen by a later message of the session, whether the messages arrive
\* on the WebSocket or at the REST endpoint.
C39_SessionSeenOnEitherPath == \A path \in ServicePaths : HadStateOn(path) => SeenFrom(path)

\* messages of one session on the same path do see what the earlier ones left
C39_SeenOnSamePath == HadStateOn(PathOfLast) => SeenFrom(PathOfLast)

\* a trip given on the socket is unknown to the message that follows it at
\* the REST endpoint
C39_OtherPathForgets ==
    /\ last.op = "POST /chat/message"
    /\ HadStateOn("socket")
    /\ Located(last.before.socket[The(last.sessionId)].entities)
    /\ Present(ServingMap[The(last.sessionId)].entities) = {}

(***************************************************************************)
(* Properties of the emits of the chat:message handler, read from `probe`. *)
(***************************************************************************)
\* the emits that answer event k, in the order emitted
EmittedFor(k) ==
    LET Answers(emission) == emission.of = k
    IN  SelectSeq(probe.emitted, Answers)
EventsOf(emissions) == [n \in 1..Len(emissions) |-> emissions[n].event]
TypingEmits(isTyping) ==
    {n \in 1..Len(probe.emitted) :
        probe.emitted[n].event = "chat:typing" /\ probe.emitted[n].isTyping = Some(isTyping)}

\* C40: for an event with a non-empty text the handler emits chat:typing
\* true once, then chat:typing false once, then chat:response when
\* processMessage returned or chat:error when it threw; for an empty or blank
\* text it emits chat:error alone.  Hence the indicator is on for exactly the
\* events still being handled, and off once every event is handled.
C40_TypingThenAnswer ==
    /\ \A k \in 1..Len(probe.received) :
          IF BlankMessage(probe.received[k])
          THEN EventsOf(EmittedFor(k)) = <<"chat:error">>
          ELSE IF k \in probe.waiting
          THEN EmittedFor(k) = <<Emission(k, "chat:typing", Some(TRUE))>>
          ELSE EmittedFor(k)
                   = <<Emission(k, "chat:typing", Some(TRUE)),
                       Emission(k, "chat:typing", Some(FALSE)),
                       Emission(k, IF k \in probe.threw THEN "chat:error"
                                   ELSE "chat:response", Null)>>
    /\ Cardinality(TypingEmits(TRUE)) - Cardinality(TypingEmits(FALSE))
           = Cardinality(probe.waiting)
    /\ (probe.waiting = {} /\ TypingEmits(TRUE) # {}) =>
           Max(TypingEmits(FALSE)) > Max(TypingEmits(TRUE))

\* two events overlap, processMessage throws for one of them, and both are
\* answered with the indicator switched off
C40_Witness ==
    /\ Len(probe.received) = 2
    /\ probe.waiting = {}
    /\ Cardinality(probe.threw) = 1
    /\ EventsOf(probe.emitted)
           \in {<<"chat:typing", "chat:typing", "chat:typing", first, "chat:typing", second>> :
                   first \in {"chat:response", "chat:error"},
                   second \in {"chat:response", "chat:error"}}

\* a blank text is answered with chat:error and no typing event
C40_WitnessBlank ==
    /\ Len(probe.received) >= 1
    /\ probe.received[1] = Some("   ")
    /\ EventsOf(EmittedFor(1)) = <<"chat:error">>

====
